---- MODULE Spec2Model ----
(***************************************************************************)
(* A model of rlldp: the neighbor liveness table of src/src/lib.rs         *)
(* (Interface::insert_du and the timeout task it spawns) and the LLDP and  *)
(* CDP data-unit decoders of src/src/lldp and src/src/cdp.                 *)
(***************************************************************************)
EXTENDS Integers, Sequences, FiniteSets, TLC

(***************************************************************************)
(* Bounds of the model.                                                    *)
(***************************************************************************)
\* number of insert_du calls made in one behaviour
MaxUpdates == 2
\* the clock (Instant::now()) runs from 0 to MaxTime
MaxTime == 1
\* the largest time_to_live a data unit carries
MaxTtl == 1

\* concurrent callers of insert_du (one per capture loop sharing the Interface)
\* TLVs per message, after the optional mandatory ones
MaxTlvs == 2
\* length of the long text TLV, a length that needs bit 8 of the LLDP header
LongText == 256

\* longest field body given to a single TLV decode
MaxField == 7
\* most TLVs that follow a message holding every single-valued TLV once
MaxRepeats == 2

Procs == {"p1", "p2"}
Macs == {"aa"}
Protocols == {"Cdp", "Lldp"}
TaskIds == 1 .. MaxUpdates

VARIABLES
  now,          \* Instant::now()
  neighbors,    \* InterfaceInner.neighbors: the HashMap, as a set of (key, value) records
  lockHolders,  \* the tasks holding the RwLock write guard
  lockQueue,    \* the tasks waiting for the RwLock, in arrival order
  upd,          \* each caller's insert_du activation: its position and locals
  tasks,        \* the spawned timeout tasks
  nextId,       \* identity of the next data unit / timeout task
  lastLocked,   \* history: per key, the update that entered its critical section last
  payload,      \* the frame payload handed to DataUnit::decode
  decoder,      \* which decoder runs: "none", "cdp" or "lldp"
  status,       \* "idle", "scan" (in the TLV loop), "done" (returned) or "panic"
  cursor,       \* bytes of payload consumed: buf = &payload[cursor..]
  list,         \* lldp decode_list: the Vec<Tlv> built so far
  cdpDu,        \* cdp DataUnit::decode: the data unit built so far
  warnings,     \* what warn!() has logged, in order
  result,       \* the Result returned by DataUnit::decode
  given         \* the value handed to an encoder or to the unifying view, or what came of it

tableVars == <<now, neighbors, lockHolders, lockQueue, upd, tasks, nextId, lastLocked>>
decodeVars == <<payload, decoder, status, cursor, list, cdpDu, warnings, result, given>>

NoKey == [protocol |-> "none", source |-> "none"]
NoDu == [protocol |-> "none", time_to_live |-> 0, id |-> 0]

\* src/src/common.rs: DataUnit::protocol
protocol(du) == du.protocol

\* `x as _` from u8 to u16
as_u16(n) == n % 65536

\* src/src/common.rs: DataUnit::time_to_live
time_to_live(du) == IF du.protocol = "Cdp" THEN as_u16(du.time_to_live) ELSE du.time_to_live

\* a table keyed by the source MAC alone
NeighborKeyOf_SourceOnly(source, du) == [protocol |-> "Lldp", source |-> source]

\* src/src/lib.rs: let key = NeighborKey { source, protocol: du.protocol() }
NeighborKeyOf(source, du) == [protocol |-> protocol(du), source |-> source]

Keys == [protocol : Protocols, source : Macs]


(***************************************************************************)
(* Bytes, integers and text.                                               *)
(***************************************************************************)
\* &buf[from..] with from counted from 0
SliceFrom(buf, from) == SubSeq(buf, from + 1, Len(buf))
\* &buf[from..to]
Slice(buf, from, to) == SubSeq(buf, from + 1, to)
\* u16::from_be_bytes
u16_from_be_bytes(b) == b[1] * 256 + b[2]
\* u16::from_le_bytes
u16_from_le_bytes(b) == b[1] + b[2] * 256
\* u32::from_be_bytes
u32_from_be_bytes(b) == ((b[1] * 256 + b[2]) * 256 + b[3]) * 256 + b[4]

\* U+FFFD REPLACEMENT CHARACTER
ReplacementChar == 65533
\* does the byte string start with the given bytes
StartsWith(buf, head) == Len(buf) >= Len(head) /\ SubSeq(buf, 1, Len(head)) = head

\* the UTF-8 encoding of U+FFFD
ReplacementUtf8 == <<239, 191, 189>>

\* String::from_utf8_lossy, as the sequence of code points it yields. Exact
\* for the bytes the model feeds it: ASCII bytes stand for themselves, the
\* three bytes EF BF BD are U+FFFD, and 0xFF, which no UTF-8 sequence
\* contains, becomes one U+FFFD per byte.
from_utf8_lossy(bytes) ==
  LET n == Len(bytes)
      Triple(i) == i + 2 <= n /\ SubSeq(bytes, i, i + 2) = ReplacementUtf8
      Inside(i) == (i > 1 /\ Triple(i - 1)) \/ (i > 2 /\ Triple(i - 2))
      kept == SelectSeq([i \in 1 .. n |-> i], LAMBDA i : ~Inside(i))
  IN [k \in 1 .. Len(kept) |->
        IF bytes[kept[k]] < 128 THEN bytes[kept[k]] ELSE ReplacementChar]

\* str::as_bytes of a text of ASCII characters and U+FFFD: its UTF-8 bytes
RECURSIVE as_bytes(_)
as_bytes(text) ==
  IF text = <<>> THEN <<>>
  ELSE (IF text[1] < 128 THEN <<text[1]>> ELSE ReplacementUtf8) \o as_bytes(Tail(text))

\* u16::to_be_bytes, u16::to_le_bytes, u32::to_be_bytes
u16_to_be_bytes(x) == <<x \div 256, x % 256>>
u16_to_le_bytes(x) == <<x % 256, x \div 256>>
u32_to_be_bytes(x) ==
  <<x \div 16777216, (x \div 65536) % 256, (x \div 256) % 256, x % 256>>
\* `n as u8` of a usize
as_u8(n) == n % 256

None == [some |-> FALSE]
Some(x) == [some |-> TRUE, v |-> x]
Ok(x) == [ok |-> TRUE, v |-> x]
Err(kind, arg) == [ok |-> FALSE, err |-> [kind |-> kind, arg |-> arg]]
NoResult == [ok |-> FALSE, err |-> [kind |-> "none", arg |-> 0]]
NoValue == [kind |-> "none"]
\* DataUnitError::RawTlvError(#[from] RawTlvError), which `?` builds (cdp/mod.rs
\* 17-18 and 71, lldp/du.rs 20-21 and 96); RawTlvError has the one variant
\* BufferTooShort
DataUnitError_from(e) == Err("RawTlvError::BufferTooShort", 0)

(***************************************************************************)
(* CDP: src/src/cdp/tlv.rs and src/src/cdp/mod.rs                          *)
(***************************************************************************)
\* a total length that leaves out the 4 bytes of the header
CdpRawTlv_total_len_PayloadOnly(raw) == Len(raw.payload)

\* cdp/tlv.rs 68-70
CdpRawTlv_total_len(raw) == Len(raw.payload) + 4

\* cdp/tlv.rs 72-88. The result is the set of outcomes the build can produce:
\*  - line 79, (len as usize) - 4 with len < 4: a debug build panics on the
\*    overflow; a release build wraps to 2^64 - (4 - len), which is larger than
\*    any slice, so line 81 returns BufferTooShort;
\*  - line 85, &buf[4..4 + len] with buf.len() < 4 + len: the slice index
\*    panics in every build (line 81 compared buf.len() with len, not len + 4).
CdpRawTlv_decode(buf) ==
  IF Len(buf) < 4 THEN {Err("BufferTooShort", 0)}
  ELSE
    LET ty == u16_from_be_bytes(Slice(buf, 0, 2))
        len16 == u16_from_be_bytes(Slice(buf, 2, 4))
    IN IF len16 < 4
         THEN {[panic |-> "attempt to subtract with overflow"], Err("BufferTooShort", 0)}
       ELSE
         LET len == len16 - 4 IN
           IF Len(buf) < len THEN {Err("BufferTooShort", 0)}
           ELSE IF Len(buf) < 4 + len
             THEN {[panic |-> "range end index out of range for slice"]}
           ELSE {Ok([ty |-> ty, payload |-> Slice(buf, 4, 4 + len)])}

\* cdp/tlv.rs 33-46: TlvKind::try_from(u16)
CdpTlvKind_try_from(value) ==
  CASE value = 1 -> Ok("DeviceId")
    [] value = 3 -> Ok("PortId")
    [] value = 5 -> Ok("SoftwareVersion")
    [] value = 6 -> Ok("Platform")
    [] value = 10 -> Ok("NativeVlan")
    [] value = 11 -> Ok("Duplex")
    [] OTHER -> Err("UnknownTlv", value)

\* a duplex byte read as a flag that only 1 sets
Duplex_from_OnlyOne(byte) == IF byte = 1 THEN "Full" ELSE "Half"

\* cdp/tlv.rs 124-128: the duplex byte, 0 is Half and anything else Full
Duplex_from(byte) == IF byte = 0 THEN "Half" ELSE "Full"

\* cdp/tlv.rs 108-132: Tlv::decode
CdpTlv_decode(raw) ==
  LET kind == CdpTlvKind_try_from(raw.ty) IN
    IF ~kind.ok THEN kind
    ELSE CASE kind.v \in {"DeviceId", "PortId", "SoftwareVersion", "Platform"} ->
                Ok([kind |-> kind.v, text |-> from_utf8_lossy(raw.payload)])
           [] kind.v = "NativeVlan" ->
                IF Len(raw.payload) < 2 THEN Err("BufferTooShort", 0)
                ELSE IF Len(raw.payload) > 2 THEN Err("BufferTooLong", 0)
                ELSE Ok([kind |-> "NativeVlan", vlan |-> u16_from_be_bytes(raw.payload)])
           [] kind.v = "Duplex" ->
                IF Len(raw.payload) < 1 THEN Err("BufferTooShort", 0)
                ELSE IF Len(raw.payload) > 1 THEN Err("BufferTooLong", 0)
                ELSE Ok([kind |-> "Duplex", duplex |-> Duplex_from(raw.payload[1])])

NoCdpDu ==
  [time_to_live |-> 0, device_id |-> None, software_version |-> None,
   platform |-> None, port_id |-> None, duplex |-> None, native_vlan |-> None]

\* cdp/mod.rs 73-114: the match arms that store a decoded TLV (last one wins)
CdpStore(du, tlv) ==
  CASE tlv.kind = "DeviceId" -> [du EXCEPT !.device_id = Some(tlv.text)]
    [] tlv.kind = "PortId" -> [du EXCEPT !.port_id = Some(tlv.text)]
    [] tlv.kind = "Platform" -> [du EXCEPT !.platform = Some(tlv.text)]
    [] tlv.kind = "SoftwareVersion" -> [du EXCEPT !.software_version = Some(tlv.text)]
    [] tlv.kind = "NativeVlan" -> [du EXCEPT !.native_vlan = Some(tlv.vlan)]
    [] tlv.kind = "Duplex" -> [du EXCEPT !.duplex = Some(tlv.duplex)]

\* cdp/mod.rs 75-77 etc.: the field a TLV replaces, when it is already set
CdpDuplicate(du, tlv) ==
  CASE tlv.kind = "DeviceId" -> du.device_id.some
    [] tlv.kind = "PortId" -> du.port_id.some
    [] tlv.kind = "Platform" -> du.platform.some
    [] tlv.kind = "SoftwareVersion" -> du.software_version.some
    [] tlv.kind = "NativeVlan" -> du.native_vlan.some
    [] tlv.kind = "Duplex" -> du.duplex.some

(***************************************************************************)
(* LLDP: src/src/lldp/tlv and src/src/lldp/du.rs                           *)
(***************************************************************************)
\* lldp/tlv/mod.rs 31-48: TlvKind::try_from(u8)
TlvKind_try_from(value) ==
  CASE value = 0 -> Ok("End")
    [] value = 1 -> Ok("ChassisId")
    [] value = 2 -> Ok("PortId")
    [] value = 3 -> Ok("TimeToLive")
    [] value = 4 -> Ok("PortDescription")
    [] value = 5 -> Ok("SystemName")
    [] value = 6 -> Ok("SystemDescription")
    [] value = 7 -> Ok("Capabilities")
    [] value = 8 -> Ok("ManagementAddress")
    [] value = 127 -> Ok("Org")
    [] OTHER -> Err("UnknownTlv", value)

\* lldp/tlv/mod.rs 102-104
RawTlv_total_len(raw) == Len(raw.payload) + 2

\* a header that reads only the second byte as the length
PayloadLen_LowByteOnly(b0, b1) == b1

\* lldp/tlv/mod.rs 111: buf[0] >> 1
PayloadTy(b0) == b0 \div 2
\* lldp/tlv/mod.rs 112: (((buf[0] & 1) as usize) << 8) + buf[1] as usize
PayloadLen(b0, b1) == (b0 % 2) * 256 + b1

\* lldp/tlv/mod.rs 106-125: RawTlv::decode
RawTlv_decode(buf) ==
  IF Len(buf) < 2 THEN Err("BufferTooShort", 0)
  ELSE
    LET payload_ty == PayloadTy(buf[1])
        payload_len == PayloadLen(buf[1], buf[2])
        tlv_len == payload_len + 2
    IN IF Len(buf) < tlv_len THEN Err("BufferTooShort", 0)
       ELSE Ok([ty |-> payload_ty, payload |-> Slice(buf, 2, 2 + payload_len)])

\* a parse that tells the address family by the number of address bytes
NetworkAddress_parse_ByLength(buf) ==
  IF buf = <<>> THEN Err("BufferTooShort", 0)
  ELSE Ok([family |-> IF Len(buf) = 5 THEN "V4" ELSE IF Len(buf) = 17 THEN "V6" ELSE "Other",
           subtype |-> buf[1], octets |-> SubSeq(buf, 2, Len(buf))])

\* lldp/tlv/address.rs 58-86: NetworkAddress::parse (the callers in
\* port_id.rs and management_address.rs name it NetworkAddress::decode)
NetworkAddress_parse(buf) ==
  IF buf = <<>> THEN Err("BufferTooShort", 0)
  ELSE
    LET subtype == buf[1]
        rest == SliceFrom(buf, 1)
    IN CASE subtype = 1 ->
              IF Len(rest) > 4 THEN Err("BufferTooLong", 0)
              ELSE IF Len(rest) < 4 THEN Err("BufferTooShort", 0)
              ELSE Ok([family |-> "V4", subtype |-> subtype, octets |-> rest])
         [] subtype = 2 ->
              IF Len(rest) > 16 THEN Err("BufferTooLong", 0)
              ELSE IF Len(rest) < 16 THEN Err("BufferTooShort", 0)
              ELSE Ok([family |-> "V6", subtype |-> subtype, octets |-> rest])
         [] OTHER -> Ok([family |-> "Other", subtype |-> subtype, octets |-> rest])

\* lldp/tlv/chassis_id.rs 18-32: ChassisIdKind::try_from(u8)
ChassisIdKind_try_from(value) ==
  CASE value = 1 -> Ok("Chassis")
    [] value = 2 -> Ok("IfAlias")
    [] value = 3 -> Ok("Port")
    [] value = 4 -> Ok("LlAddr")
    [] value = 5 -> Ok("Addr")
    [] value = 6 -> Ok("IfName")
    [] value = 7 -> Ok("Local")
    [] OTHER -> Err("UnknownChassisIdSubtype", value)

\* lldp/tlv/chassis_id.rs 84-109: ChassisId::decode
ChassisId_decode(buf) ==
  IF buf = <<>> THEN Err("BufferTooShort", 0)
  ELSE
    LET subtype == ChassisIdKind_try_from(buf[1])
        rest == SliceFrom(buf, 1)
    IN IF ~subtype.ok THEN subtype
       ELSE CASE subtype.v = "Chassis" -> Ok([kind |-> "Chassis", text |-> from_utf8_lossy(rest)])
              [] subtype.v = "IfAlias" -> Ok([kind |-> "InterfaceAlias", text |-> from_utf8_lossy(rest)])
              [] subtype.v = "Port" -> Ok([kind |-> "PortComponent", text |-> from_utf8_lossy(rest)])
              [] subtype.v = "IfName" -> Ok([kind |-> "InterfaceName", text |-> from_utf8_lossy(rest)])
              [] subtype.v = "Local" -> Ok([kind |-> "Local", text |-> from_utf8_lossy(rest)])
              [] subtype.v = "Addr" ->
                   LET addr == NetworkAddress_parse(rest) IN
                     IF addr.ok THEN Ok([kind |-> "NetworkAddress", addr |-> addr.v]) ELSE addr
              [] subtype.v = "LlAddr" ->
                   IF Len(rest) < 6 THEN Err("BufferTooShort", 0)
                   ELSE IF Len(rest) > 6 THEN Err("BufferTooLong", 0)
                   ELSE Ok([kind |-> "MacAddress", mac |-> Slice(rest, 0, 6)])

\* lldp/tlv/port_id.rs 17-31: PortIdKind::try_from(u8)
PortIdKind_try_from(value) ==
  CASE value = 1 -> Ok("IfAlias")
    [] value = 2 -> Ok("Port")
    [] value = 3 -> Ok("LlAddr")
    [] value = 4 -> Ok("Addr")
    [] value = 5 -> Ok("IfName")
    [] value = 6 -> Ok("AgentCid")
    [] value = 7 -> Ok("Local")
    [] OTHER -> Err("UnknownPortIdSubtype", value)

\* lldp/tlv/port_id.rs 83-109: PortId::decode
PortId_decode(buf) ==
  IF buf = <<>> THEN Err("BufferTooShort", 0)
  ELSE
    LET subtype == PortIdKind_try_from(buf[1])
        rest == SliceFrom(buf, 1)
    IN IF ~subtype.ok THEN subtype
       ELSE CASE subtype.v = "IfName" -> Ok([kind |-> "InterfaceName", text |-> from_utf8_lossy(rest)])
              [] subtype.v = "IfAlias" -> Ok([kind |-> "InterfaceAlias", text |-> from_utf8_lossy(rest)])
              [] subtype.v = "Port" -> Ok([kind |-> "PortComponent", text |-> from_utf8_lossy(rest)])
              [] subtype.v = "Local" -> Ok([kind |-> "Local", text |-> from_utf8_lossy(rest)])
              [] subtype.v = "AgentCid" -> Ok([kind |-> "AgentCircuitId", bytes |-> rest])
              [] subtype.v = "Addr" ->
                   LET addr == NetworkAddress_parse(rest) IN
                     IF addr.ok THEN Ok([kind |-> "NetworkAddress", addr |-> addr.v]) ELSE addr
              [] subtype.v = "LlAddr" ->
                   IF Len(rest) < 6 THEN Err("BufferTooShort", 0)
                   ELSE IF Len(rest) > 6 THEN Err("BufferTooLong", 0)
                   ELSE Ok([kind |-> "MacAddress", mac |-> Slice(rest, 0, 6)])

\* lldp/tlv/system_capabilities.rs 32-47: Capabilities::decode
Capabilities_decode(buf) ==
  IF Len(buf) > 4 THEN Err("BufferTooLong", 0)
  ELSE IF Len(buf) < 4 THEN Err("BufferTooShort", 0)
  ELSE Ok([capabilities |-> u16_from_be_bytes(Slice(buf, 0, 2)),
           enabled_capabilities |-> u16_from_be_bytes(Slice(buf, 2, 4))])

\* lldp/tlv/management_address.rs 14-24: ManagementInterfaceKind::try_from(u8)
ManagementInterfaceKind_try_from(value) ==
  CASE value = 1 -> Ok("Unknown")
    [] value = 2 -> Ok("IfIndex")
    [] value = 3 -> Ok("SysPort")
    [] OTHER -> Err("UnknownManagementInterfaceSubtype", value)

\* lldp/tlv/management_address.rs 54-92: ManagementAddress::decode
ManagementAddress_decode(buf) ==
  IF buf = <<>> THEN Err("BufferTooShort", 0)
  ELSE
    LET addr_str_length == buf[1] IN
      IF Len(buf) < 1 + addr_str_length THEN Err("BufferTooShort", 0)
      ELSE
        LET address == NetworkAddress_parse(Slice(buf, 1, 1 + addr_str_length))
            rest == SliceFrom(buf, 1 + addr_str_length)
        IN IF ~address.ok THEN address
           ELSE IF Len(rest) < 6 THEN Err("BufferTooShort", 0)
           ELSE
             LET interface_subtype == ManagementInterfaceKind_try_from(rest[1])
                 interface_number == Slice(rest, 1, 5)
                 oid_len == rest[6]
                 oid == SliceFrom(rest, 6)
             IN IF ~interface_subtype.ok THEN interface_subtype
                ELSE IF Len(oid) > oid_len THEN Err("BufferTooLong", 0)
                ELSE IF Len(oid) < oid_len THEN Err("BufferTooShort", 0)
                ELSE Ok([address |-> address.v,
                         interface_subtype |-> interface_subtype.v,
                         interface_number |-> u32_from_be_bytes(interface_number),
                         oid |-> from_utf8_lossy(oid)])

\* lldp/tlv/org/mod.rs 8-9
LLDP_TLV_ORG_DOT1 == <<0, 128, 194>>
LLDP_TLV_ORG_DOT3 == <<0, 18, 15>>

\* lldp/tlv/org/dot1.rs 58-85: dot1::Tlv::decode
Dot1Tlv_decode(subtype, buf) ==
  CASE subtype = 1 ->
         IF Len(buf) > 2 THEN Err("BufferTooLong", 0)
         ELSE IF Len(buf) < 2 THEN Err("BufferTooShort", 0)
         ELSE Ok([kind |-> "PortVlanId", vlan |-> u16_from_be_bytes(Slice(buf, 0, 2))])
    [] subtype = 3 ->
         IF Len(buf) < 3 THEN Err("BufferTooShort", 0)
         ELSE
           LET vlan == u16_from_be_bytes(Slice(buf, 0, 2))
               name_len == buf[3]
               name == SliceFrom(buf, 3)
           IN IF Len(name) > name_len THEN Err("BufferTooLong", 0)
              ELSE IF Len(name) < name_len THEN Err("BufferTooShort", 0)
              ELSE Ok([kind |-> "VlanName", vlan |-> vlan, name |-> from_utf8_lossy(name)])
    [] OTHER -> Err("UnknownTlv", subtype)

\* lldp/tlv/org/dot3.rs 150-207: the named variants of MauType, by value
MauTypeNames ==
  <<
    "Aui", "B10Base5", "Foirl", "B10Base2",
    "B10BaseT", "B10BaseFP", "B10BaseFB", "B10BaseFL",
    "B10Broad36", "B10BaseTHD", "B10BaseTFD", "B10BaseFLHD",
    "B10BaseFLFD", "B100BaseT4", "B100BaseTXHD", "B100BaseTXFD",
    "B100BaseFXHD", "B100BaseFXFD", "B100BaseT2HD", "B100BaseT2FD",
    "B1000BaseXHD", "B1000BaseXFD", "B1000BaseLXHD", "B1000BaseLXFD",
    "B1000BaseSXHD", "B1000BaseSXFD", "B1000BaseCXHD", "B1000BaseCXFD",
    "B1000BaseTHD", "B1000BaseTFD", "B10GigBaseX", "B10GigBaseLX4",
    "B10GigBaseR", "B10GigBaseER", "B10GigBaseLR", "B10GigBaseSR",
    "B10GigBaseW", "B10GigBaseEW", "B10GigBaseLW", "B10GigBaseSW",
    "B10GigBaseCX4", "B2BaseTL", "B10PassTS", "B100BaseBX10D",
    "B100BaseBX10U", "B100BaseLX10", "B1000BaseBX10D", "B1000BaseBX10U",
    "B1000BaseLX10", "B1000BasePX10D", "B1000BasePX10U", "B1000BasePX20D",
    "B1000BasePX20U"
  >>

\* lldp/tlv/org/dot3.rs 209-268: MauType::from(u16)
MauType_from(value) ==
  IF value \in 1 .. Len(MauTypeNames)
    THEN [name |-> MauTypeNames[value], code |-> value]
    ELSE [name |-> "Unknown", code |-> value]

\* a dot3 decode that rejects every length but 5 as too short
Dot3Tlv_decode_NoTooLong(subtype, buf) ==
  CASE subtype = 1 ->
         IF Len(buf) # 5 THEN Err("BufferTooShort", 0)
         ELSE Ok([kind |-> "MacPhyStatus",
                  status |-> buf[1],
                  advertised |-> u16_from_le_bytes(Slice(buf, 1, 3)),
                  mau |-> MauType_from(u16_from_be_bytes(Slice(buf, 3, 5)))])
    [] OTHER -> Err("UnknownTlv", subtype)

\* lldp/tlv/org/dot3.rs 54-77: dot3::Tlv::decode
Dot3Tlv_decode(subtype, buf) ==
  CASE subtype = 1 ->
         IF Len(buf) > 5 THEN Err("BufferTooLong", 0)
         ELSE IF Len(buf) < 5 THEN Err("BufferTooShort", 0)
         ELSE Ok([kind |-> "MacPhyStatus",
                  status |-> buf[1],
                  advertised |-> u16_from_le_bytes(Slice(buf, 1, 3)),
                  mau |-> MauType_from(u16_from_be_bytes(Slice(buf, 3, 5)))])
    [] OTHER -> Err("UnknownTlv", subtype)

\* lldp/tlv/org/mod.rs 35-53: OrgTlv::decode
OrgTlv_decode(buf) ==
  IF Len(buf) < 4 THEN Err("BufferTooShort", 0)
  ELSE
    LET org == Slice(buf, 0, 3)
        subtype == buf[4]
        rest == SliceFrom(buf, 4)
    IN CASE org = LLDP_TLV_ORG_DOT1 ->
              LET r == Dot1Tlv_decode(subtype, rest) IN
                IF r.ok THEN Ok([org |-> "Dot1", tlv |-> r.v]) ELSE r
         [] org = LLDP_TLV_ORG_DOT3 ->
              LET r == Dot3Tlv_decode(subtype, rest) IN
                IF r.ok THEN Ok([org |-> "Dot3", tlv |-> r.v]) ELSE r
         [] OTHER ->
              Ok([org |-> "Custom",
                  tlv |-> [org |-> org, subtype |-> subtype, data |-> rest]])

\* wraps a decoded value into a Tlv variant, as .map(Tlv::X) does
MapTlv(kind, r) == IF r.ok THEN Ok([kind |-> kind, v |-> r.v]) ELSE r

\* lldp/tlv/mod.rs 228-287: Tlv::decode. The Org arm is the call of
\* OrgTlv::decode (org/mod.rs 35-53), the decoder whose variants
\* DataUnit::decode matches on (du.rs 163-177).
Tlv_decode(raw) ==
  LET kind == TlvKind_try_from(raw.ty) IN
    IF ~kind.ok THEN kind
    ELSE CASE kind.v = "End" ->
                IF Len(raw.payload) > 2 THEN Err("BytesAfterEnd", 0)
                ELSE Ok([kind |-> "End", v |-> 0])
           [] kind.v = "ChassisId" -> MapTlv("ChassisId", ChassisId_decode(raw.payload))
           [] kind.v = "PortId" -> MapTlv("PortId", PortId_decode(raw.payload))
           [] kind.v = "TimeToLive" ->
                IF Len(raw.payload) > 2 THEN Err("BufferTooLong", 0)
                ELSE IF Len(raw.payload) < 2 THEN Err("BufferTooShort", 0)
                ELSE Ok([kind |-> "TimeToLive", v |-> u16_from_be_bytes(raw.payload)])
           [] kind.v \in {"PortDescription", "SystemName", "SystemDescription"} ->
                Ok([kind |-> kind.v, v |-> from_utf8_lossy(raw.payload)])
           [] kind.v = "Capabilities" -> MapTlv("Capabilities", Capabilities_decode(raw.payload))
           [] kind.v = "ManagementAddress" ->
                MapTlv("ManagementAddress", ManagementAddress_decode(raw.payload))
           [] kind.v = "Org" -> MapTlv("Org", OrgTlv_decode(raw.payload))

(***************************************************************************)
(* LLDP encoders                                                           *)
(***************************************************************************)
\* lldp/tlv/address.rs 26-34 and the encode of NetworkAddress: the kind byte,
\* then the address octets
NetworkAddress_encode(a) ==
  <<(CASE a.family = "V4" -> 1 [] a.family = "V6" -> 2 [] OTHER -> a.subtype)>> \o a.octets

\* NetworkAddress::encoded_size
NetworkAddress_encoded_size(a) == Len(a.octets) + 1

\* lldp-parser chassis_id.rs 32-44: u8::from(ChassisIdKind) of ChassisId::kind
ChassisIdKind_into_u8(v) ==
  CASE v.kind = "Chassis" -> 1
    [] v.kind = "InterfaceAlias" -> 2
    [] v.kind = "PortComponent" -> 3
    [] v.kind = "MacAddress" -> 4
    [] v.kind = "NetworkAddress" -> 5
    [] v.kind = "InterfaceName" -> 6
    [] v.kind = "Local" -> 7

\* lldp-parser chassis_id.rs 121-133: ChassisId::encode
ChassisId_encode(v) ==
  <<ChassisIdKind_into_u8(v)>> \o
    (CASE v.kind = "MacAddress" -> v.mac
       [] v.kind = "NetworkAddress" -> NetworkAddress_encode(v.addr)
       [] OTHER -> as_bytes(v.text))

\* lldp/tlv/port_id.rs 33-45 and 58-69: u8::from(PortIdKind) of PortId::kind
PortIdKind_into_u8(v) ==
  CASE v.kind = "InterfaceAlias" -> 1
    [] v.kind = "PortComponent" -> 2
    [] v.kind = "MacAddress" -> 3
    [] v.kind = "NetworkAddress" -> 4
    [] v.kind = "InterfaceName" -> 5
    [] v.kind = "AgentCircuitId" -> 6
    [] v.kind = "Local" -> 7

\* lldp/tlv/port_id.rs 122-134: PortId::encode
PortId_encode(v) ==
  <<PortIdKind_into_u8(v)>> \o
    (CASE v.kind = "MacAddress" -> v.mac
       [] v.kind = "NetworkAddress" -> NetworkAddress_encode(v.addr)
       [] v.kind = "AgentCircuitId" -> v.bytes
       [] OTHER -> as_bytes(v.text))

\* lldp/tlv/system_capabilities.rs 53-56: Capabilities::encode
Capabilities_encode(v) ==
  u16_to_be_bytes(v.capabilities) \o u16_to_be_bytes(v.enabled_capabilities)

\* lldp/tlv/management_address.rs 26-34: u8::from(ManagementInterfaceKind)
ManagementInterfaceKind_into_u8(k) ==
  CASE k = "Unknown" -> 1 [] k = "IfIndex" -> 2 [] k = "SysPort" -> 3

\* lldp/tlv/management_address.rs 98-105: ManagementAddress::encode
ManagementAddress_encode(v) ==
  <<as_u8(NetworkAddress_encoded_size(v.address))>>
    \o NetworkAddress_encode(v.address)
    \o <<ManagementInterfaceKind_into_u8(v.interface_subtype)>>
    \o u32_to_be_bytes(v.interface_number)
    \o <<as_u8(Len(as_bytes(v.oid)))>>
    \o as_bytes(v.oid)

\* lldp-parser org/dot1.rs 95-105: dot1::Tlv::encode
Dot1Tlv_encode(v) ==
  CASE v.kind = "PortVlanId" -> <<1>> \o u16_to_be_bytes(v.vlan)
    [] v.kind = "VlanName" ->
         <<3>> \o u16_to_be_bytes(v.vlan) \o <<as_u8(Len(as_bytes(v.name)))>> \o as_bytes(v.name)

\* lldp/tlv/org/dot3.rs 270-328: u16::from(MauType) of the named variants, in
\* the order of MauTypeNames (line 279 gives B10BaseFL the number 9)
MauTypeCodes ==
  <<1, 2, 3, 4, 5, 6, 7, 9, 9, 10, 11, 12, 13, 14, 15, 16, 17, 18, 19, 20,
    21, 22, 23, 24, 25, 26, 27, 28, 29, 30, 31, 32, 33, 34, 35, 36, 37, 38, 39, 40,
    41, 42, 43, 44, 45, 46, 47, 48, 49, 50, 51, 52, 53>>

\* lldp/tlv/org/dot3.rs 270-328: u16::from(MauType)
MauType_into_u16(m) ==
  IF m.name = "Unknown" THEN m.code
  ELSE MauTypeCodes[CHOOSE i \in 1 .. Len(MauTypeNames) : MauTypeNames[i] = m.name]

\* lldp/tlv/org/dot3.rs 85-95: dot3::Tlv::encode
Dot3Tlv_encode(v) ==
  <<1, v.status>> \o u16_to_le_bytes(v.advertised) \o u16_to_be_bytes(MauType_into_u16(v.mau))

\* an encoder that leaves the subtype byte out
CustomOrgTlv_encode_NoSubtype(c) == c.data

\* lldp/tlv/org/mod.rs 94-97: CustomOrgTlv::encode
CustomOrgTlv_encode(c) == <<c.subtype>> \o c.data

\* lldp/tlv/org/mod.rs 19-25: OrgTlv::org
OrgTlv_org(v) ==
  CASE v.org = "Dot1" -> LLDP_TLV_ORG_DOT1
    [] v.org = "Dot3" -> LLDP_TLV_ORG_DOT3
    [] v.org = "Custom" -> v.tlv.org

\* lldp/tlv/org/mod.rs 64-71: OrgTlv::encode
OrgTlv_encode(v) ==
  OrgTlv_org(v) \o
    (CASE v.org = "Dot1" -> Dot1Tlv_encode(v.tlv)
       [] v.org = "Dot3" -> Dot3Tlv_encode(v.tlv)
       [] v.org = "Custom" -> CustomOrgTlv_encode(v.tlv))

\* lldp/tlv/mod.rs 50-65: u8::from(TlvKind) of Tlv::kind
TlvKind_into_u8(kind) ==
  CASE kind = "End" -> 0
    [] kind = "ChassisId" -> 1
    [] kind = "PortId" -> 2
    [] kind = "TimeToLive" -> 3
    [] kind = "PortDescription" -> 4
    [] kind = "SystemName" -> 5
    [] kind = "SystemDescription" -> 6
    [] kind = "Capabilities" -> 7
    [] kind = "ManagementAddress" -> 8
    [] kind = "Org" -> 127

\* the payload Tlv::encode writes after the header, by variant
Tlv_encode_payload(tlv) ==
  CASE tlv.kind = "End" -> <<>>
    [] tlv.kind = "ChassisId" -> ChassisId_encode(tlv.v)
    [] tlv.kind = "PortId" -> PortId_encode(tlv.v)
    [] tlv.kind = "TimeToLive" -> u16_to_be_bytes(tlv.v)
    [] tlv.kind \in {"PortDescription", "SystemName", "SystemDescription"} -> as_bytes(tlv.v)
    [] tlv.kind = "Capabilities" -> Capabilities_encode(tlv.v)
    [] tlv.kind = "ManagementAddress" -> ManagementAddress_encode(tlv.v)
    [] tlv.kind = "Org" -> OrgTlv_encode(tlv.v)

\* Tlv::encode: the 2-byte header, 7 bits of type and 9 bits of the
\* payload's length, then the payload
Tlv_encode(tlv) ==
  LET body == Tlv_encode_payload(tlv)
      word == (TlvKind_into_u8(tlv.kind) * 512 + Len(body)) % 65536
  IN u16_to_be_bytes(word) \o body

(***************************************************************************)
(* HashMap<NeighborKey, Neighbor>                                          *)
(***************************************************************************)
MapGet(m, k) == {e \in m : e.key = k}
MapContains(m, k) == MapGet(m, k) # {}
\* a removal that takes every entry of the source MAC, whatever its protocol
MapRemove_BySource(m, k) == {e \in m : e.key.source # k.source}
MapRemove(m, k) == {e \in m : e.key # k}
MapInsert(m, k, v) ==
  {e \in m : e.key # k} \cup
  {[key |-> k,
    first_detection_time |-> v.first_detection_time,
    last_detection_time |-> v.last_detection_time,
    timeout_handle |-> v.timeout_handle,
    du |-> v.du]}

(***************************************************************************)
(* tokio::sync::RwLock, write side: a FIFO-fair lock.                      *)
(***************************************************************************)
U(p) == <<"upd", p>>
T(t) == <<"task", t>>

RECURSIVE SeqWithout(_, _)
SeqWithout(q, a) ==
  IF q = <<>> THEN <<>>
  ELSE IF Head(q) = a THEN SeqWithout(Tail(q), a)
       ELSE <<Head(q)>> \o SeqWithout(Tail(q), a)

LockFree == lockHolders = {}

\* a lock that admits a second writer
Acquire_NoExclusion(a) ==
  /\ lockHolders' = lockHolders \cup {a}
  /\ lockQueue' = lockQueue

\* write().await, first poll: take the lock when it is free, else queue up
Acquire(a) ==
  IF LockFree
    THEN /\ lockHolders' = {a}
         /\ lockQueue' = lockQueue
    ELSE /\ lockHolders' = lockHolders
         /\ lockQueue' = Append(lockQueue, a)

\* dropping the write guard hands the lock to the first waiter
ReleaseFrom(a, q) ==
  IF q = <<>>
    THEN /\ lockHolders' = lockHolders \ {a}
         /\ lockQueue' = q
    ELSE /\ lockHolders' = (lockHolders \ {a}) \cup {Head(q)}
         /\ lockQueue' = Tail(q)

(***************************************************************************)
(* The timeout task of insert_du (lib.rs 95-102) and AbortHandle::abort.   *)
(***************************************************************************)
NoTask == [pc |-> "none", key |-> NoKey, ttl |-> 0, deadline |-> 0, aborted |-> FALSE]

\* a task that ran to completion or was dropped by abort()
Ended(how) == [NoTask EXCEPT !.pc = how]

\* an abort() that cancels nothing
AbortTask_Noop(task) == task

\* a task that is not being polled is dropped at once by abort(); one that is
\* in the middle of a poll only has its cancel flag set and is dropped when
\* that poll returns Pending
AbortTask(task) ==
  IF task.pc \in {"spawned", "sleeping", "locking"}
    THEN Ended("cancelled")
  ELSE IF task.pc = "running"
    THEN [task EXCEPT !.aborted = TRUE]
  ELSE task

\* an update that forgets the replaced entry's first_detection_time
InheritedFirst_Forgotten(old, mine) == mine

\* lib.rs 83-84: if let Some(entry) = inner.remove(&key) { first_detection_time = entry.first_detection_time; .. }
InheritedFirst(old, mine) ==
  IF old = {} THEN mine ELSE (CHOOSE e \in old : TRUE).first_detection_time

\* an insert_du activation that has returned: its locals are gone
Idle ==
  [pc |-> "idle", source |-> "none", du |-> NoDu, key |-> NoKey,
   first_detection_time |-> 0, last_detection_time |-> 0]

Init ==
  /\ now = 0
  /\ neighbors = {}
  /\ lockHolders = {}
  /\ lockQueue = <<>>
  /\ upd = [p \in Procs |-> Idle]
  /\ tasks = [t \in TaskIds |-> NoTask]
  /\ nextId = 1
  /\ lastLocked = [k \in Keys |-> 0]
  /\ payload = <<>>
  /\ decoder = "none"
  /\ status = "idle"
  /\ cursor = 0
  /\ list = <<>>
  /\ cdpDu = NoCdpDu
  /\ warnings = <<>>
  /\ result = NoResult
  /\ given = NoValue

\* the clock advances
Tick ==
  /\ now < MaxTime
  /\ now' = now + 1
  /\ UNCHANGED <<neighbors, lockHolders, lockQueue, upd, tasks, nextId, lastLocked, decodeVars>>

\* lib.rs 73-80: insert_du is called; key and the two timestamps are computed
UpdateStart(p, source, proto, ttl) ==
  /\ upd[p].pc = "idle"
  /\ nextId <= MaxUpdates
  /\ LET du == [protocol |-> proto, time_to_live |-> ttl, id |-> nextId] IN
       upd' = [upd EXCEPT ![p] =
                 [pc |-> "acquire", source |-> source, du |-> du,
                  key |-> NeighborKeyOf(source, du),
                  first_detection_time |-> now,
                  last_detection_time |-> now]]
  /\ nextId' = nextId + 1
  /\ UNCHANGED <<now, neighbors, lockHolders, lockQueue, tasks, lastLocked, decodeVars>>

\* lib.rs 82: self.inner.neighbors.write().await
UpdateAcquire(p) ==
  /\ upd[p].pc = "acquire"
  /\ Acquire(U(p))
  /\ upd' = [upd EXCEPT ![p].pc = "locking"]
  /\ UNCHANGED <<now, neighbors, tasks, nextId, lastLocked, decodeVars>>

\* lib.rs 83-102: remove the old entry, keep its first_detection_time, abort
\* its timeout task, spawn the new timeout task (named by the data unit's id)
UpdateRemoveSpawn(p) ==
  /\ upd[p].pc = "locking"
  /\ U(p) \in lockHolders
  /\ LET key == upd[p].key
         old == MapGet(neighbors, key)
         t == upd[p].du.id
         aborted == {e.timeout_handle : e \in old}
         spawned == [pc |-> "spawned", key |-> key, ttl |-> time_to_live(upd[p].du),
                     deadline |-> 0, aborted |-> FALSE]
     IN
       /\ neighbors' = MapRemove(neighbors, key)
       /\ upd' = [upd EXCEPT
                    ![p].pc = "insert",
                    ![p].first_detection_time = InheritedFirst(old, @)]
       /\ tasks' = [x \in TaskIds |->
                      IF x = t THEN spawned
                      ELSE IF x \in aborted THEN AbortTask(tasks[x])
                      ELSE tasks[x]]
       /\ lockQueue' = IF \E x \in aborted : tasks[x].pc = "locking"
                         THEN SeqWithout(lockQueue, T(CHOOSE x \in aborted : TRUE))
                         ELSE lockQueue
       /\ lastLocked' = [lastLocked EXCEPT ![key] = t]
  /\ UNCHANGED <<now, lockHolders, nextId, decodeVars>>

\* lib.rs 104-113: insert the new entry; the write guard is dropped on return
UpdateInsert(p) ==
  /\ upd[p].pc = "insert"
  /\ U(p) \in lockHolders
  /\ neighbors' = MapInsert(neighbors, upd[p].key,
                    [first_detection_time |-> upd[p].first_detection_time,
                     last_detection_time |-> upd[p].last_detection_time,
                     timeout_handle |-> upd[p].du.id,
                     du |-> upd[p].du])
  /\ ReleaseFrom(U(p), lockQueue)
  /\ upd' = [upd EXCEPT ![p] = Idle]
  /\ UNCHANGED <<now, tasks, nextId, lastLocked, decodeVars>>

\* lib.rs 97: the task's first poll creates the Sleep, due ttl seconds from now
TaskStart(t) ==
  /\ tasks[t].pc = "spawned"
  /\ tasks' = [tasks EXCEPT ![t].pc = "sleeping", ![t].deadline = now + tasks[t].ttl]
  /\ UNCHANGED <<now, neighbors, lockHolders, lockQueue, upd, nextId, lastLocked, decodeVars>>

\* lib.rs 97-98: the sleep has elapsed and the task is polled again
TaskWake(t) ==
  /\ tasks[t].pc = "sleeping"
  /\ now >= tasks[t].deadline
  /\ tasks' = [tasks EXCEPT ![t].pc = "running"]
  /\ UNCHANGED <<now, neighbors, lockHolders, lockQueue, upd, nextId, lastLocked, decodeVars>>

\* lib.rs 99: interface.inner.neighbors.write().await, in the poll that woke up;
\* a poll that returns Pending with the cancel flag set ends the task
TaskAcquire(t) ==
  /\ tasks[t].pc = "running"
  /\ IF ~LockFree /\ tasks[t].aborted
       THEN /\ tasks' = [tasks EXCEPT ![t] = Ended("cancelled")]
            /\ UNCHANGED <<lockHolders, lockQueue>>
       ELSE /\ Acquire(T(t))
            /\ tasks' = [tasks EXCEPT ![t].pc = "locking"]
  /\ UNCHANGED <<now, neighbors, upd, nextId, lastLocked, decodeVars>>

\* lib.rs 99: .remove(&key_clone); the guard is a temporary, dropped at once
TaskRemove(t) ==
  /\ tasks[t].pc = "locking"
  /\ T(t) \in lockHolders
  /\ neighbors' = MapRemove(neighbors, tasks[t].key)
  /\ ReleaseFrom(T(t), lockQueue)
  /\ tasks' = [tasks EXCEPT ![t] = Ended("finished")]
  /\ UNCHANGED <<now, upd, nextId, lastLocked, decodeVars>>

Next ==
  \/ Tick
  \/ \E p \in Procs, source \in Macs, proto \in Protocols, ttl \in 0 .. MaxTtl :
       UpdateStart(p, source, proto, ttl)
  \/ \E p \in Procs : UpdateAcquire(p)
  \/ \E p \in Procs : UpdateRemoveSpawn(p)
  \/ \E p \in Procs : UpdateInsert(p)
  \/ \E t \in TaskIds : TaskStart(t)
  \/ \E t \in TaskIds : TaskWake(t)
  \/ \E t \in TaskIds : TaskAcquire(t)
  \/ \E t \in TaskIds : TaskRemove(t)

vars == <<tableVars, decodeVars>>

Spec == Init /\ [][Next]_vars

(***************************************************************************)
(* lldp/du.rs 98-193: DataUnit::decode after decode_list                   *)
(***************************************************************************)
NoOrg ==
  [dot1 |-> [port_vlan_id |-> None, vlan_name |-> <<>>],
   dot3 |-> [mac_phy_status |-> None]]

\* lldp/du.rs 98-106: the locals before the loop
NoLldpFields ==
  [chassis_id |-> None, port_id |-> None, time_to_live |-> None,
   port_description |-> None, system_name |-> None, system_description |-> None,
   capabilities |-> None, management_address |-> <<>>, org |-> NoOrg]

\* lldp/du.rs 109-180: one iteration of the loop, the value stored
LldpStore(f, tlv) ==
  CASE tlv.kind = "ChassisId" -> [f EXCEPT !.chassis_id = Some(tlv.v)]
    [] tlv.kind = "PortId" -> [f EXCEPT !.port_id = Some(tlv.v)]
    [] tlv.kind = "TimeToLive" -> [f EXCEPT !.time_to_live = Some(tlv.v)]
    [] tlv.kind = "PortDescription" -> [f EXCEPT !.port_description = Some(tlv.v)]
    [] tlv.kind = "SystemName" -> [f EXCEPT !.system_name = Some(tlv.v)]
    [] tlv.kind = "SystemDescription" -> [f EXCEPT !.system_description = Some(tlv.v)]
    [] tlv.kind = "Capabilities" -> [f EXCEPT !.capabilities = Some(tlv.v)]
    [] tlv.kind = "ManagementAddress" ->
         [f EXCEPT !.management_address = Append(@, tlv.v)]
    [] tlv.kind = "Org" /\ tlv.v.org = "Dot1" /\ tlv.v.tlv.kind = "PortVlanId" ->
         [f EXCEPT !.org.dot1.port_vlan_id = Some(tlv.v.tlv.vlan)]
    [] tlv.kind = "Org" /\ tlv.v.org = "Dot1" /\ tlv.v.tlv.kind = "VlanName" ->
         [f EXCEPT !.org.dot1.vlan_name = Append(@, <<tlv.v.tlv.vlan, tlv.v.tlv.name>>)]
    [] tlv.kind = "Org" /\ tlv.v.org = "Dot3" /\ tlv.v.tlv.kind = "MacPhyStatus" ->
         [f EXCEPT !.org.dot3.mac_phy_status = Some(tlv.v.tlv)]
    [] OTHER -> f

\* an assembly that never finds an earlier value
LldpDuplicate_Never(f, tlv) == FALSE

\* lldp/du.rs 113, 120, ..., 173: `if let Some(old) = x.take()`, the warning
LldpDuplicate(f, tlv) ==
  CASE tlv.kind = "ChassisId" -> f.chassis_id.some
    [] tlv.kind = "PortId" -> f.port_id.some
    [] tlv.kind = "TimeToLive" -> f.time_to_live.some
    [] tlv.kind = "PortDescription" -> f.port_description.some
    [] tlv.kind = "SystemName" -> f.system_name.some
    [] tlv.kind = "SystemDescription" -> f.system_description.some
    [] tlv.kind = "Capabilities" -> f.capabilities.some
    [] tlv.kind = "Org" /\ tlv.v.org = "Dot1" /\ tlv.v.tlv.kind = "PortVlanId" ->
         f.org.dot1.port_vlan_id.some
    [] tlv.kind = "Org" /\ tlv.v.org = "Dot3" /\ tlv.v.tlv.kind = "MacPhyStatus" ->
         f.org.dot3.mac_phy_status.some
    [] OTHER -> FALSE

Warn(msg, what) == [msg |-> msg, what |-> what]

\* lldp/du.rs 108-181: `for tlv in list`
RECURSIVE LldpCollect(_, _)
LldpCollect(tlvs, acc) ==
  IF tlvs = <<>> THEN acc
  ELSE
    LET tlv == Head(tlvs) IN
      LldpCollect(Tail(tlvs),
        [fields |-> LldpStore(acc.fields, tlv),
         warns |-> IF LldpDuplicate(acc.fields, tlv)
                     THEN Append(acc.warns, Warn("duplicate", tlv.kind))
                     ELSE acc.warns])

\* an assembly that looks for the port id before the chassis id
LldpBuild_PortIdFirst(f) ==
  IF ~f.port_id.some THEN Err("MissingPortId", 0)
  ELSE IF ~f.chassis_id.some THEN Err("MissingChassisId", 0)
  ELSE IF ~f.time_to_live.some THEN Err("MissingTimeToLive", 0)
  ELSE Ok([chassis_id |-> f.chassis_id.v,
           port_id |-> f.port_id.v,
           time_to_live |-> f.time_to_live.v,
           port_description |-> f.port_description,
           system_name |-> f.system_name,
           system_description |-> f.system_description,
           capabilities |-> f.capabilities,
           management_address |-> f.management_address,
           org |-> f.org])

\* lldp/du.rs 183-193: the mandatory fields, checked in this order
LldpBuild(f) ==
  IF ~f.chassis_id.some THEN Err("MissingChassisId", 0)
  ELSE IF ~f.port_id.some THEN Err("MissingPortId", 0)
  ELSE IF ~f.time_to_live.some THEN Err("MissingTimeToLive", 0)
  ELSE Ok([chassis_id |-> f.chassis_id.v,
           port_id |-> f.port_id.v,
           time_to_live |-> f.time_to_live.v,
           port_description |-> f.port_description,
           system_name |-> f.system_name,
           system_description |-> f.system_description,
           capabilities |-> f.capabilities,
           management_address |-> f.management_address,
           org |-> f.org])

\* a loop that puts each decoded TLV before the ones decoded earlier
PushDecoded_Front(out, res) == IF res.ok THEN <<res.v>> \o out ELSE out

\* lldp/tlv/mod.rs 86-89: the match on Tlv::decode's result, the output
PushDecoded(out, res) == IF res.ok THEN Append(out, res.v) ELSE out

(***************************************************************************)
(* The messages the decoders are given.                                    *)
(***************************************************************************)
\* how far a header's length field is from the length of what follows it
Deltas == {0 - 1, 0, 1, 5}

Text(n) == [i \in 1 .. n |-> 120]

\* <<type, payload>> of the LLDP TLVs the messages are built of
LldpSamples ==
  { <<0, <<>>>>,
    <<0, <<7>>>>,
    <<0, <<0, 0, 0>>>>,
    <<1, <<4, 1, 2, 3, 4, 5, 6>>>>,
    <<1, <<9, 65>>>>,
    <<2, <<5, 101>>>>,
    <<3, <<0, 120>>>>,
    <<5, <<104, 255>>>>,
    <<7, <<0, 20, 0, 4>>>>,
    <<8, <<5, 1, 10, 0, 0, 1, 2, 0, 0, 0, 1, 0>>>>,
    <<127, <<0, 128, 194, 1, 0, 100>>>>,
    <<127, <<0, 128, 194, 9>>>>,
    <<127, <<0, 18, 15, 1, 3, 1, 0, 0, 30>>>>,
    <<127, <<1, 2, 3, 7, 42>>>>,
    <<9, <<1>>>>,
    <<6, Text(LongText)>> }

\* a TLV on the wire: 7 bits of type, 9 bits of length, the payload
LldpWire(ty, len, body) == <<ty * 2 + (len \div 256), len % 256>> \o body

LldpChunks ==
  { LldpWire(sd[1][1], Len(sd[1][2]) + sd[2], sd[1][2]) :
      sd \in {x \in LldpSamples \X Deltas : Len(x[1][2]) + x[2] >= 0} }

LldpWellFormed == { LldpWire(s[1], Len(s[2]), s[2]) : s \in LldpSamples }

\* chassis id, port id and time to live, well formed
LldpMandatory ==
  LldpWire(1, 7, <<4, 1, 2, 3, 4, 5, 6>>) \o LldpWire(2, 2, <<5, 101>>)
    \o LldpWire(3, 2, <<0, 120>>)

RECURSIVE Concats(_, _)
Concats(chunks, n) ==
  IF n = 0 THEN {<<>>}
  ELSE LET shorter == Concats(chunks, n - 1) IN
         shorter \cup {r \o c : r \in shorter, c \in chunks}

\* up to MaxTlvs TLVs, the last of them with any length field
Messages(wellFormed, chunks) ==
  {<<>>} \cup {r \o c : r \in Concats(wellFormed, MaxTlvs - 1), c \in chunks}

\* one TLV of every single-valued kind, each with a first value
LldpFull ==
  LldpWire(1, 2, <<7, 65>>) \o LldpWire(2, 2, <<5, 65>>) \o LldpWire(3, 2, <<0, 120>>)
    \o LldpWire(4, 1, <<65>>) \o LldpWire(5, 1, <<65>>) \o LldpWire(6, 1, <<65>>)
    \o LldpWire(7, 4, <<0, 20, 0, 4>>)
    \o LldpWire(127, 6, <<0, 128, 194, 1, 0, 100>>)
    \o LldpWire(127, 9, <<0, 18, 15, 1, 3, 1, 0, 0, 30>>)

\* the same kinds with a second value, the first chassis id again, and two
\* management addresses and two VLAN names
LldpExtras ==
  { LldpWire(1, 2, <<7, 66>>), LldpWire(1, 2, <<7, 65>>), LldpWire(2, 2, <<5, 66>>),
    LldpWire(3, 2, <<0, 60>>), LldpWire(4, 1, <<66>>), LldpWire(5, 1, <<66>>),
    LldpWire(6, 1, <<66>>), LldpWire(7, 4, <<0, 4, 0, 4>>),
    LldpWire(127, 6, <<0, 128, 194, 1, 0, 200>>),
    LldpWire(127, 9, <<0, 18, 15, 1, 3, 1, 0, 0, 16>>),
    LldpWire(8, 12, <<5, 1, 10, 0, 0, 1, 2, 0, 0, 0, 1, 0>>),
    LldpWire(8, 12, <<5, 1, 10, 0, 0, 2, 2, 0, 0, 0, 1, 0>>),
    LldpWire(127, 8, <<0, 128, 194, 3, 0, 100, 1, 65>>),
    LldpWire(127, 8, <<0, 128, 194, 3, 0, 200, 1, 66>>) }

LldpRepeats == {LldpFull \o t : t \in Concats(LldpExtras, MaxRepeats)}

LldpInputs ==
  LET tails == Messages(LldpWellFormed, LldpChunks) \cup {<<254>>}
  IN tails \cup {LldpMandatory \o t : t \in tails} \cup LldpRepeats

\* <<type, payload>> of the CDP TLVs the messages are built of
CdpSamples ==
  { <<1, <<115, 255>>>>,
    <<3, <<101>>>>,
    <<5, <<>>>>,
    <<10, <<0, 100>>>>,
    <<10, <<0>>>>,
    <<11, <<0>>>>,
    <<11, <<1>>>>,
    <<11, <<1, 1>>>>,
    <<9, <<7>>>> }

\* a TLV on the wire: 16 bits of type, 16 bits of total length, the payload
CdpWire(ty, len, body) == <<ty \div 256, ty % 256, len \div 256, len % 256>> \o body

CdpChunks == { CdpWire(s[1], 4 + Len(s[2]) + d, s[2]) : s \in CdpSamples, d \in Deltas }

CdpWellFormed == { CdpWire(s[1], 4 + Len(s[2]), s[2]) : s \in CdpSamples }

\* one TLV of every kind, each with a first value
CdpFull ==
  CdpWire(1, 5, <<65>>) \o CdpWire(3, 5, <<65>>) \o CdpWire(5, 5, <<65>>)
    \o CdpWire(6, 5, <<65>>) \o CdpWire(10, 6, <<0, 100>>) \o CdpWire(11, 5, <<0>>)

\* the same kinds with a second value, and the first device id again
CdpExtras ==
  { CdpWire(1, 5, <<66>>), CdpWire(1, 5, <<65>>), CdpWire(3, 5, <<66>>), CdpWire(5, 5, <<66>>),
    CdpWire(6, 5, <<66>>), CdpWire(10, 6, <<0, 200>>), CdpWire(11, 5, <<1>>) }

CdpRepeats == {<<2, 180, 0, 0>> \o CdpFull \o t : t \in Concats(CdpExtras, MaxRepeats)}

CdpInputs ==
  {<<>>, <<2>>, <<2, 180, 0>>, <<3>>, <<1, 180>>, <<3, 180, 0>>, <<3, 180, 0, 0>>}
    \cup { <<v, 180, 0, 0>> \o t : v \in {1, 2}, t \in Messages(CdpWellFormed, CdpChunks) }
    \cup { <<2, ttl, 0, 0>> \o t : ttl \in {0, 255}, t \in CdpWellFormed \cup {<<>>} }
    \cup CdpRepeats

(***************************************************************************)
(* cdp/mod.rs 45-121: DataUnit::decode, one step per loop iteration        *)
(***************************************************************************)
Remaining == SliceFrom(payload, cursor)

\* cdp/mod.rs 45-69
CdpDecodeStart(bytes) ==
  /\ status = "idle"
  /\ payload' = bytes
  /\ decoder' = "Cdp"
  /\ list' = <<>>
  /\ warnings' = <<>>
  /\ IF Len(bytes) < 4
       THEN /\ status' = "done"
            /\ result' = Err("BufferTooShort", 0)
            /\ UNCHANGED <<cursor, cdpDu>>
     ELSE IF bytes[1] # 2
       THEN /\ status' = "done"
            /\ result' = Err("UnknownCdpVersion", bytes[1])
            /\ UNCHANGED <<cursor, cdpDu>>
     ELSE /\ status' = "scan"
          /\ cursor' = 4
          /\ cdpDu' = [NoCdpDu EXCEPT !.time_to_live = bytes[2]]
          /\ result' = NoResult
  /\ UNCHANGED <<given, tableVars>>

\* cdp/mod.rs 70-118: one iteration of `while !buf.is_empty()`
CdpLoop ==
  /\ status = "scan"
  /\ decoder = "Cdp"
  /\ Remaining # <<>>
  /\ \E raw \in CdpRawTlv_decode(Remaining) :
       IF "panic" \in DOMAIN raw
         THEN /\ status' = "panic"
              /\ UNCHANGED <<cursor, cdpDu, warnings, result>>
       ELSE IF ~raw.ok
         THEN /\ status' = "done"
              /\ result' = DataUnitError_from(raw.err)
              /\ UNCHANGED <<cursor, cdpDu, warnings>>
       ELSE LET tlv == CdpTlv_decode(raw.v) IN
              /\ cursor' = cursor + CdpRawTlv_total_len(raw.v)
              /\ IF tlv.ok
                   THEN /\ cdpDu' = CdpStore(cdpDu, tlv.v)
                        /\ warnings' = IF CdpDuplicate(cdpDu, tlv.v)
                                         THEN Append(warnings, Warn("duplicate", tlv.v.kind))
                                         ELSE warnings
                   ELSE /\ cdpDu' = cdpDu
                        /\ warnings' = Append(warnings, Warn("failed to decode tlv", tlv.err))
              /\ UNCHANGED <<status, result>>
  /\ UNCHANGED <<payload, decoder, list, given, tableVars>>

\* cdp/mod.rs 120
CdpFinish ==
  /\ status = "scan"
  /\ decoder = "Cdp"
  /\ Remaining = <<>>
  /\ status' = "done"
  /\ result' = Ok(cdpDu)
  /\ UNCHANGED <<payload, decoder, cursor, list, cdpDu, warnings, given, tableVars>>

(***************************************************************************)
(* lldp/du.rs 95-194: DataUnit::decode, one step per iteration of          *)
(* decode_list (lldp/tlv/mod.rs 80-93)                                     *)
(***************************************************************************)
\* lldp/du.rs 96, lldp/tlv/mod.rs 81
LldpDecodeStart(bytes) ==
  /\ status = "idle"
  /\ payload' = bytes
  /\ decoder' = "Lldp"
  /\ status' = "scan"
  /\ cursor' = 0
  /\ list' = <<>>
  /\ warnings' = <<>>
  /\ result' = NoResult
  /\ UNCHANGED <<cdpDu, given, tableVars>>

\* lldp/tlv/mod.rs 83-90: one iteration of `while !buf.is_empty()`
LldpLoop ==
  /\ status = "scan"
  /\ decoder = "Lldp"
  /\ Remaining # <<>>
  /\ LET raw == RawTlv_decode(Remaining) IN
       IF ~raw.ok
         THEN /\ status' = "done"
              /\ result' = DataUnitError_from(raw.err)
              /\ UNCHANGED <<cursor, list, warnings>>
       ELSE LET tlv == Tlv_decode(raw.v) IN
              /\ cursor' = cursor + RawTlv_total_len(raw.v)
              /\ list' = PushDecoded(list, tlv)
              /\ warnings' = IF tlv.ok THEN warnings
                             ELSE Append(warnings, Warn("failed to decode tlv", tlv.err))
              /\ UNCHANGED <<status, result>>
  /\ UNCHANGED <<payload, decoder, cdpDu, given, tableVars>>

\* lldp/tlv/mod.rs 92 and lldp/du.rs 98-193
LldpFinish ==
  /\ status = "scan"
  /\ decoder = "Lldp"
  /\ Remaining = <<>>
  /\ LET acc == LldpCollect(list, [fields |-> NoLldpFields, warns |-> <<>>]) IN
       /\ status' = "done"
       /\ warnings' = warnings \o acc.warns
       /\ result' = LldpBuild(acc.fields)
  /\ UNCHANGED <<payload, decoder, cursor, list, cdpDu, given, tableVars>>

\* Tlv::encode of each element of a Vec of TLVs, in order
RECURSIVE EncodeAll(_)
EncodeAll(tlvs) == IF tlvs = <<>> THEN <<>> ELSE Tlv_encode(Head(tlvs)) \o EncodeAll(Tail(tlvs))

\* `if let Some(x) = field { x.encode(buf) }`
EncodeSome(kind, opt) == IF opt.some THEN Tlv_encode([kind |-> kind, v |-> opt.v]) ELSE <<>>

Dot1Org(tlv) == [kind |-> "Org", v |-> [org |-> "Dot1", tlv |-> tlv]]
Dot3Org(tlv) == [kind |-> "Org", v |-> [org |-> "Dot3", tlv |-> tlv]]

\* lldp-parser lldp/du.rs 196-283: DataUnit::encode
DataUnit_encode(d) ==
  Tlv_encode([kind |-> "ChassisId", v |-> d.chassis_id])
    \o Tlv_encode([kind |-> "PortId", v |-> d.port_id])
    \o Tlv_encode([kind |-> "TimeToLive", v |-> d.time_to_live])
    \o EncodeSome("PortDescription", d.port_description)
    \o EncodeSome("SystemName", d.system_name)
    \o EncodeSome("SystemDescription", d.system_description)
    \o EncodeSome("Capabilities", d.capabilities)
    \o EncodeAll([i \in 1 .. Len(d.management_address) |->
                    [kind |-> "ManagementAddress", v |-> d.management_address[i]]])
    \o (IF d.org.dot1.port_vlan_id.some
          THEN Tlv_encode(Dot1Org([kind |-> "PortVlanId", vlan |-> d.org.dot1.port_vlan_id.v]))
          ELSE <<>>)
    \o EncodeAll([i \in 1 .. Len(d.org.dot1.vlan_name) |->
                    Dot1Org([kind |-> "VlanName", vlan |-> d.org.dot1.vlan_name[i][1],
                             name |-> d.org.dot1.vlan_name[i][2]])])
    \o (IF d.org.dot3.mac_phy_status.some
          THEN Tlv_encode(Dot3Org(d.org.dot3.mac_phy_status.v))
          ELSE <<>>)

\* the LLDP data units the encoder is given
Optional(S) == {None} \cup {Some(x) : x \in S}

MgmtA == [address |-> [family |-> "V4", subtype |-> 1, octets |-> <<1, 2, 3, 4>>],
          interface_subtype |-> "IfIndex", interface_number |-> 7, oid |-> <<>>]
MgmtB == [address |-> [family |-> "Other", subtype |-> 44, octets |-> <<11, 22>>],
          interface_subtype |-> "SysPort", interface_number |-> 123456, oid |-> <<111, 105, 100>>]

MacPhy(mau) == [kind |-> "MacPhyStatus", status |-> 3, advertised |-> 32769, mau |-> MauType_from(mau)]

DataUnits ==
  [chassis_id : {[kind |-> "MacAddress", mac |-> <<12, 34, 56, 78, 90, 12>>],
                 [kind |-> "Local", text |-> <<102, 111>>]},
   port_id : {[kind |-> "InterfaceName", text |-> <<102, 111>>]},
   time_to_live : {0, 65535},
   port_description : Optional({<<102, 111>>}),
   system_name : Optional({<<>>}),
   system_description : Optional({<<ReplacementChar>>}),
   capabilities : Optional({[capabilities |-> 20, enabled_capabilities |-> 4]}),
   management_address : {<<>>, <<MgmtA, MgmtB>>, <<MgmtB, MgmtA, MgmtB>>},
   org : [dot1 : [port_vlan_id : Optional({1234}),
                  vlan_name : {<<>>, <<<<2, <<102, 111>>>>, <<1, <<>>>>>>,
                               <<<<1, <<>>>>, <<2, <<102, 111>>>>>>}],
          dot3 : [mac_phy_status : Optional({MacPhy(30), MacPhy(8)})]]]

\* lldp-parser lldp/du.rs 285-292: test_encode_decode(du), DataUnit::encode and
\* then DataUnit::decode of what it wrote
LldpDuRoundTrip(d) ==
  /\ status = "idle"
  /\ given' = [kind |-> "DataUnit", v |-> d]
  /\ payload' = DataUnit_encode(d)
  /\ decoder' = "Lldp"
  /\ status' = "scan"
  /\ cursor' = 0
  /\ list' = <<>>
  /\ warnings' = <<>>
  /\ result' = NoResult
  /\ UNCHANGED <<cdpDu, tableVars>>

DecodeNext ==
  \/ status = "idle" /\ \E bytes \in CdpInputs : CdpDecodeStart(bytes)
  \/ CdpLoop
  \/ CdpFinish
  \/ status = "idle" /\ \E bytes \in LldpInputs : LldpDecodeStart(bytes)
  \/ status = "idle" /\ \E d \in DataUnits : LldpDuRoundTrip(d)
  \/ LldpLoop
  \/ LldpFinish

SpecDecode == Init /\ [][DecodeNext]_vars

(***************************************************************************)
(* Single TLVs: Tlv::decode of lldp and of cdp applied to one raw TLV.     *)
(***************************************************************************)
\* the bodies a field is given: n bytes counting up, or n bytes 255
Fill(n) == {[i \in 1 .. n |-> i], [i \in 1 .. n |-> 255]}
Bodies == UNION {Fill(n) : n \in 0 .. MaxField}

\* <<type, start of the payload>> of the LLDP TLVs decoded one by one
LldpHeads ==
  { <<0, <<>>>>, <<3, <<>>>>, <<7, <<>>>>,
    <<1, <<>>>>, <<1, <<4>>>>, <<1, <<5>>>>, <<1, <<7>>>>,
    <<2, <<>>>>, <<2, <<3>>>>, <<2, <<4>>>>, <<2, <<6>>>>,
    <<5, <<>>>>, <<8, <<>>>>,
    <<127, <<>>>>, <<127, <<0, 128, 194, 1>>>>, <<127, <<0, 128, 194, 3>>>>,
    <<127, <<0, 18, 15, 1>>>>, <<127, <<0, 18, 15, 2>>>>, <<127, <<0, 18, 14>>>>,
    <<9, <<>>>> }

\* <<type, start of the payload>> of the CDP TLVs decoded one by one
CdpHeads == { <<1, <<>>>>, <<10, <<>>>>, <<11, <<>>>>, <<9, <<>>>> }

\* lldp/tlv/mod.rs 228-287: Tlv::decode of the raw TLV (ty, bytes)
LldpTlvDecode(ty, bytes) ==
  /\ status = "idle"
  /\ decoder' = "LldpTlv"
  /\ payload' = LldpWire(ty, Len(bytes), bytes)
  /\ result' = Tlv_decode([ty |-> ty, payload |-> bytes])
  /\ status' = "done"
  /\ UNCHANGED <<cursor, list, cdpDu, warnings, given, tableVars>>

\* cdp/tlv.rs 108-132: Tlv::decode of the raw TLV (ty, bytes)
CdpTlvDecode(ty, bytes) ==
  /\ status = "idle"
  /\ decoder' = "CdpTlv"
  /\ payload' = CdpWire(ty, 4 + Len(bytes), bytes)
  /\ result' = CdpTlv_decode([ty |-> ty, payload |-> bytes])
  /\ status' = "done"
  /\ UNCHANGED <<cursor, list, cdpDu, warnings, given, tableVars>>

\* the LLDP values the encoders are given
Texts == {<<>>, <<102, 111>>, <<ReplacementChar>>}

NetworkAddresses ==
  { [family |-> "V4", subtype |-> 1, octets |-> <<1, 2, 3, 4>>],
    [family |-> "V6", subtype |-> 2, octets |-> [i \in 1 .. 16 |-> i]],
    [family |-> "Other", subtype |-> 44, octets |-> <<11, 22>>],
    [family |-> "Other", subtype |-> 1, octets |-> <<1, 2, 3, 4>>] }

MacAddresses == {<<12, 34, 56, 78, 90, 12>>}

ChassisIds ==
  [kind : {"Chassis", "InterfaceAlias", "PortComponent", "InterfaceName", "Local"}, text : Texts]
    \cup [kind : {"MacAddress"}, mac : MacAddresses]
    \cup [kind : {"NetworkAddress"}, addr : NetworkAddresses]

PortIds ==
  [kind : {"InterfaceAlias", "PortComponent", "InterfaceName", "Local"}, text : Texts]
    \cup [kind : {"MacAddress"}, mac : MacAddresses]
    \cup [kind : {"NetworkAddress"}, addr : NetworkAddresses]
    \cup [kind : {"AgentCircuitId"}, bytes : {<<>>, <<1, 2, 255>>}]

CapabilitiesValues ==
  { [capabilities |-> 20, enabled_capabilities |-> 4],
    [capabilities |-> 65535, enabled_capabilities |-> 0] }

ManagementAddresses ==
  [address : NetworkAddresses, interface_subtype : {"Unknown", "IfIndex", "SysPort"},
   interface_number : {0, 123456}, oid : {<<>>, <<111, 105, 100>>}]

\* every named MauType, and Unknown(x) for x outside and inside the named range
MauTypes ==
  {MauType_from(x) : x \in 0 .. Len(MauTypeNames) + 1} \cup {[name |-> "Unknown", code |-> 8]}

Dot1Tlvs ==
  [kind : {"PortVlanId"}, vlan : {1, 1234}]
    \cup [kind : {"VlanName"}, vlan : {1234}, name : Texts]

Dot3Tlvs == [kind : {"MacPhyStatus"}, status : {3}, advertised : {1, 32769}, mau : MauTypes]

CustomOrgTlvs ==
  [org : {<<1, 2, 3>>, LLDP_TLV_ORG_DOT1}, subtype : {1, 123}, data : {<<>>, <<0, 100>>}]

OrgTlvs ==
  [org : {"Dot1"}, tlv : Dot1Tlvs] \cup [org : {"Dot3"}, tlv : Dot3Tlvs]
    \cup [org : {"Custom"}, tlv : CustomOrgTlvs]

TlvValues ==
  [kind : {"ChassisId"}, v : ChassisIds]
    \cup [kind : {"PortId"}, v : PortIds]
    \cup [kind : {"TimeToLive"}, v : {0, 120, 65535}]
    \cup [kind : {"PortDescription", "SystemName", "SystemDescription"}, v : Texts]
    \cup [kind : {"Capabilities"}, v : CapabilitiesValues]
    \cup [kind : {"ManagementAddress"}, v : ManagementAddresses]
    \cup [kind : {"Org"}, v : OrgTlvs]

\* decode of a single encoded TLV: RawTlv::decode, then Tlv::decode
DecodeOneTlv(bytes) ==
  LET raw == RawTlv_decode(bytes) IN IF raw.ok THEN Tlv_decode(raw.v) ELSE raw

\* test_encode_decode(tlv): Tlv::encode, then the decode of what it wrote
LldpTlvRoundTrip(tlv) ==
  /\ status = "idle"
  /\ decoder' = "LldpRoundTrip"
  /\ given' = tlv
  /\ payload' = Tlv_encode(tlv)
  /\ result' = DecodeOneTlv(Tlv_encode(tlv))
  /\ status' = "done"
  /\ UNCHANGED <<cursor, list, cdpDu, warnings, tableVars>>

(***************************************************************************)
(* common.rs 14-78: the data unit of either protocol and its view.         *)
(***************************************************************************)
\* common.rs 73-77: DataUnit::Cdp(value), the variant as the field protocol
DataUnit_Cdp(x) ==
  [protocol |-> "Cdp", time_to_live |-> x.time_to_live, device_id |-> x.device_id,
   software_version |-> x.software_version, platform |-> x.platform,
   port_id |-> x.port_id, duplex |-> x.duplex, native_vlan |-> x.native_vlan]

\* common.rs 67-71: DataUnit::Lldp(value), the variant as the field protocol
DataUnit_Lldp(x) ==
  [protocol |-> "Lldp", chassis_id |-> x.chassis_id, port_id |-> x.port_id,
   time_to_live |-> x.time_to_live, port_description |-> x.port_description,
   system_name |-> x.system_name, system_description |-> x.system_description,
   capabilities |-> x.capabilities, management_address |-> x.management_address,
   org |-> x.org]

\* common.rs 42-47: DataUnit::system_name
system_name(du) == IF du.protocol = "Cdp" THEN du.device_id ELSE du.system_name

\* common.rs 49-54: DataUnit::port_vlan_id
port_vlan_id(du) == IF du.protocol = "Cdp" THEN du.native_vlan ELSE du.org.dot1.port_vlan_id

\* a view that hands the CDP port id on as a locally assigned one
port_id_Local(du) ==
  IF du.protocol = "Cdp"
    THEN IF du.port_id.some THEN Some([kind |-> "Local", text |-> du.port_id.v]) ELSE None
  ELSE Some(du.port_id)

\* common.rs 56-64: DataUnit::port_id
port_id(du) ==
  IF du.protocol = "Cdp"
    THEN IF du.port_id.some THEN Some([kind |-> "InterfaceName", text |-> du.port_id.v])
         ELSE None
  ELSE Some(du.port_id)

\* the data units the view is given
CdpUnits ==
  [time_to_live : {0, 180, 255}, device_id : Optional({<<65>>}),
   software_version : {None}, platform : {None}, port_id : Optional({<<101, 49>>}),
   duplex : {None}, native_vlan : Optional({100})]

LldpUnits ==
  {d \in DataUnits : /\ d.management_address = <<>>
                     /\ d.org.dot1.vlan_name = <<>>
                     /\ ~d.capabilities.some
                     /\ ~d.port_description.some
                     /\ ~d.system_description.some}

Units == {DataUnit_Cdp(x) : x \in CdpUnits} \cup {DataUnit_Lldp(x) : x \in LldpUnits}

\* common.rs 20-65: every accessor of the view, called on one data unit
View(du) ==
  /\ status = "idle"
  /\ decoder' = "View"
  /\ given' = du
  /\ result' = Ok([protocol |-> protocol(du), time_to_live |-> time_to_live(du),
                   system_name |-> system_name(du), port_vlan_id |-> port_vlan_id(du),
                   port_id |-> port_id(du)])
  /\ status' = "done"
  /\ UNCHANGED <<payload, cursor, list, cdpDu, warnings, tableVars>>

\* <<type, payload>> of the LLDP TLVs that are decoded and encoded again: the
\* single TLVs above, what the encoders write, and a MAC/PHY TLV of MAU type 8
ReencodeInputs ==
  {<<h[1], h[2] \o b>> : h \in LldpHeads, b \in Bodies}
    \cup {<<TlvKind_into_u8(tlv.kind), Tlv_encode_payload(tlv)>> : tlv \in TlvValues}
    \cup {<<127, <<0, 18, 15, 1, 3, 1, 128, 0, 8>>>>}

\* Tlv::decode of the raw TLV (ty, bytes) and, when it succeeds, Tlv::encode
\* of the value it returned
LldpTlvReencode(ty, bytes) ==
  /\ status = "idle"
  /\ decoder' = "LldpReencode"
  /\ payload' = LldpWire(ty, Len(bytes), bytes)
  /\ result' = Tlv_decode([ty |-> ty, payload |-> bytes])
  /\ given' = IF result'.ok THEN [kind |-> "Encoded", v |-> Tlv_encode(result'.v)] ELSE NoValue
  /\ status' = "done"
  /\ UNCHANGED <<cursor, list, cdpDu, warnings, tableVars>>

(***************************************************************************)
(* to_static: the owned form of a decoded data unit (lib.rs 176-178).      *)
(***************************************************************************)
\* Cow::into_owned and Cow::Owned: a copy of the borrowed text or bytes
into_owned(x) == x

\* lldp/tlv/address.rs 51-56: NetworkAddress::to_static
NetworkAddress_to_static(a) ==
  IF a.family = "Other"
    THEN [family |-> "Other", subtype |-> a.subtype, octets |-> into_owned(a.octets)]
  ELSE a

\* lldp/tlv/chassis_id.rs 72-82: ChassisId::to_static (line 79 builds an
\* InterfaceAlias from an InterfaceName)
ChassisId_to_static(c) ==
  CASE c.kind = "Chassis" -> [kind |-> "Chassis", text |-> into_owned(c.text)]
    [] c.kind = "InterfaceAlias" -> [kind |-> "InterfaceAlias", text |-> into_owned(c.text)]
    [] c.kind = "PortComponent" -> [kind |-> "PortComponent", text |-> into_owned(c.text)]
    [] c.kind = "MacAddress" -> [kind |-> "MacAddress", mac |-> c.mac]
    [] c.kind = "NetworkAddress" ->
         [kind |-> "NetworkAddress", addr |-> NetworkAddress_to_static(c.addr)]
    [] c.kind = "InterfaceName" -> [kind |-> "InterfaceAlias", text |-> into_owned(c.text)]
    [] c.kind = "Local" -> [kind |-> "Local", text |-> into_owned(c.text)]

\* lldp/tlv/port_id.rs 71-81: PortId::to_static
PortId_to_static(p) ==
  CASE p.kind = "MacAddress" -> [kind |-> "MacAddress", mac |-> p.mac]
    [] p.kind = "NetworkAddress" ->
         [kind |-> "NetworkAddress", addr |-> NetworkAddress_to_static(p.addr)]
    [] p.kind = "AgentCircuitId" -> [kind |-> "AgentCircuitId", bytes |-> into_owned(p.bytes)]
    [] OTHER -> [kind |-> p.kind, text |-> into_owned(p.text)]

\* Option::map(|x| Cow::Owned(x.into_owned()))
MapOwned(opt) == IF opt.some THEN Some(into_owned(opt.v)) ELSE None

\* lldp/tlv/management_address.rs 45-52: ManagementAddress::to_static
ManagementAddress_to_static(m) ==
  [address |-> NetworkAddress_to_static(m.address),
   interface_subtype |-> m.interface_subtype,
   interface_number |-> m.interface_number,
   oid |-> into_owned(m.oid)]

\* lldp/du.rs 44-49 and 59-68: Org::to_static and Dot1::to_static
Org_to_static(org) ==
  [dot1 |-> [port_vlan_id |-> org.dot1.port_vlan_id,
             vlan_name |-> [i \in 1 .. Len(org.dot1.vlan_name) |->
                              <<org.dot1.vlan_name[i][1], into_owned(org.dot1.vlan_name[i][2])>>]],
   dot3 |-> org.dot3]

\* lldp/du.rs 77-93: DataUnit::to_static
LldpDataUnit_to_static(d) ==
  [chassis_id |-> ChassisId_to_static(d.chassis_id),
   port_id |-> PortId_to_static(d.port_id),
   time_to_live |-> d.time_to_live,
   port_description |-> MapOwned(d.port_description),
   system_name |-> MapOwned(d.system_name),
   system_description |-> MapOwned(d.system_description),
   capabilities |-> d.capabilities,
   management_address |-> [i \in 1 .. Len(d.management_address) |->
                             ManagementAddress_to_static(d.management_address[i])],
   org |-> Org_to_static(d.org)]

\* cdp/mod.rs 33-43: DataUnit::to_static
CdpDataUnit_to_static(d) ==
  [time_to_live |-> d.time_to_live,
   device_id |-> MapOwned(d.device_id),
   software_version |-> MapOwned(d.software_version),
   platform |-> MapOwned(d.platform),
   port_id |-> MapOwned(d.port_id),
   duplex |-> d.duplex,
   native_vlan |-> d.native_vlan]

\* common.rs 28-33: DataUnit::to_static
DataUnit_to_static(du) ==
  IF du.protocol = "Cdp" THEN DataUnit_Cdp(CdpDataUnit_to_static(du))
  ELSE DataUnit_Lldp(LldpDataUnit_to_static(du))

\* the decoded data units made owned: those of the view, one LLDP unit with
\* every chassis id and every port id, and one with management addresses and
\* VLAN names
DecodedUnits ==
  LET d == CHOOSE x \in LldpUnits : x.system_name.some /\ x.org.dot1.port_vlan_id.some
  IN Units
       \cup {DataUnit_Lldp([d EXCEPT !.chassis_id = c]) : c \in ChassisIds}
       \cup {DataUnit_Lldp([d EXCEPT !.port_id = q]) : q \in PortIds}
       \cup {DataUnit_Lldp([d EXCEPT !.management_address = <<MgmtB, MgmtA>>,
                                     !.org.dot1.vlan_name = <<<<2, <<102, 111>>>>>>])}

\* lib.rs 176-178: du.to_static(), the data unit handed to insert_du
ToStatic(du) ==
  /\ status = "idle"
  /\ decoder' = "ToStatic"
  /\ given' = du
  /\ result' = Ok(DataUnit_to_static(du))
  /\ status' = "done"
  /\ UNCHANGED <<payload, cursor, list, cdpDu, warnings, tableVars>>

\* network addresses on the wire: no byte at all, or a subtype byte and an
\* address of a length at, just below or just above 0, 4 and 16
AddressLengths == {0, 3, 4, 5, 15, 16, 17}
AddressSubtypes == {0, 1, 2, 3, 255}
AddressInputs ==
  {<<>>} \cup {<<s>> \o b : s \in AddressSubtypes, b \in UNION {Fill(n) : n \in AddressLengths}}

\* lldp/tlv/address.rs 58-86: NetworkAddress::parse(buf)
AddressParse(buf) ==
  /\ status = "idle"
  /\ decoder' = "NetworkAddress"
  /\ payload' = buf
  /\ result' = NetworkAddress_parse(buf)
  /\ status' = "done"
  /\ UNCHANGED <<given, cursor, list, cdpDu, warnings, tableVars>>

\* every value of the one byte of a CDP Duplex TLV
DuplexBytes == 0 .. 255

\* the 16-bit MAU codes converted: 0, the named codes, and codes past them
MauCodes == 0 .. Len(MauTypeNames) + 2 \cup {255, 256, 65535}

\* org/dot3.rs 209-328: MauType::from(code), then u16::from of that MauType
MauConvert(code) ==
  /\ status = "idle"
  /\ decoder' = "MauType"
  /\ given' = [kind |-> "MauType", v |-> MauType_from(code), code |-> code]
  /\ result' = Ok(MauType_into_u16(MauType_from(code)))
  /\ status' = "done"
  /\ UNCHANGED <<payload, cursor, list, cdpDu, warnings, tableVars>>

TlvNext ==
  \/ \E h \in LldpHeads, b \in Bodies : LldpTlvDecode(h[1], h[2] \o b)
  \/ \E byte \in DuplexBytes : CdpTlvDecode(11, <<byte>>)
  \/ \E code \in MauCodes : MauConvert(code)
  \/ \E du \in DecodedUnits : ToStatic(du)
  \/ \E buf \in AddressInputs : AddressParse(buf)
  \/ \E x \in ReencodeInputs : LldpTlvReencode(x[1], x[2])
  \/ \E h \in CdpHeads, b \in Bodies : CdpTlvDecode(h[1], h[2] \o b)
  \/ \E tlv \in TlvValues : LldpTlvRoundTrip(tlv)
  \/ \E du \in Units : View(du)

SpecTlv == Init /\ [][TlvNext]_vars

(***************************************************************************)
(* Steps of the table, as action predicates.                               *)
(***************************************************************************)
UpdateStartStep(p) == upd[p].pc = "idle" /\ upd'[p].pc = "acquire"
UpdateRemoveStep(p) == upd[p].pc = "locking" /\ upd'[p].pc = "insert"
UpdateInsertStep(p) == upd[p].pc = "insert" /\ upd'[p].pc = "idle"
TaskRemoveStep(t) == tasks[t].pc = "locking" /\ tasks'[t].pc = "finished"
\* the key of the update p is running, from its arguments
KeyOfUpdate(p) == [protocol |-> upd[p].du.protocol, source |-> upd[p].source]
InCriticalSection(a) ==
  \/ \E p \in Procs : a = U(p) /\ upd[p].pc = "insert"
  \/ \E p \in Procs : a = U(p) /\ upd[p].pc = "locking" /\ U(p) \in lockHolders
  \/ \E t \in TaskIds : a = T(t) /\ tasks[t].pc = "locking" /\ T(t) \in lockHolders
Actors == {U(p) : p \in Procs} \cup {T(t) : t \in TaskIds}

\* C1: an expiry action removes an entry only if the entry is the one inserted
\* by the update that scheduled it (the entry's timeout handle is that task),
\* so an expiry racing with a competing update never removes the later entry.
C1_ExpiryRemovesOnlyOwnEntry ==
  [][\A t \in TaskIds :
       TaskRemoveStep(t) =>
         \A e \in neighbors \ neighbors' : e.timeout_handle = t]_vars

\* C2: the table holds at most one entry per (protocol, source MAC) key, and
\* when an update for key K completes there is exactly one entry for K and it
\* holds that update's data unit.
C2_AtMostOnePerKey ==
  \A k \in Keys : Cardinality(MapGet(neighbors, k)) <= 1
C2_OneEntryPerKey ==
  /\ []C2_AtMostOnePerKey
  /\ [][\A p \in Procs :
          UpdateInsertStep(p) =>
            /\ Cardinality(MapGet(neighbors', KeyOfUpdate(p))) = 1
            /\ \A e \in MapGet(neighbors', KeyOfUpdate(p)) : e.du = upd[p].du]_vars
\* an update and an expiry have both happened and the table holds the update's entry
C2_Witness ==
  /\ \E e \in neighbors : e.du.id = 2 /\ e.key \in Keys
  /\ tasks[1].pc = "finished"
  /\ \A p \in Procs : upd[p].pc = "idle"

\* C3: an update of a Live key keeps the replaced entry's first_detection_time
\* and sets last_detection_time to the time of the update; an update of an
\* Absent key sets both to the time of the update.
C3_DetectionTimes ==
  [][\A p \in Procs :
       /\ UpdateStartStep(p) =>
            /\ upd'[p].first_detection_time = now
            /\ upd'[p].last_detection_time = now
       /\ UpdateRemoveStep(p) =>
            /\ upd'[p].last_detection_time = upd[p].last_detection_time
            /\ MapGet(neighbors, KeyOfUpdate(p)) = {} =>
                 upd'[p].first_detection_time = upd[p].last_detection_time
            /\ \A e \in MapGet(neighbors, KeyOfUpdate(p)) :
                 upd'[p].first_detection_time = e.first_detection_time
       /\ UpdateInsertStep(p) =>
            \A e \in MapGet(neighbors', KeyOfUpdate(p)) :
              /\ e.first_detection_time = upd[p].first_detection_time
              /\ e.last_detection_time = upd[p].last_detection_time
       /\ upd[p].pc \in {"acquire", "locking"} /\ upd'[p].pc \in {"acquire", "locking"} =>
            /\ upd'[p].first_detection_time = upd[p].first_detection_time
            /\ upd'[p].last_detection_time = upd[p].last_detection_time]_vars
\* a refreshed entry: first seen at 0, seen again at 1
C3_Witness ==
  \E e \in neighbors :
    /\ e.first_detection_time = 0
    /\ e.last_detection_time = 1
    /\ e.du.id = 2

\* C4: an entry is removed by the expiry action of the last update for its key,
\* no sooner than time_to_live() seconds after that update.
C4_ExpiryAfterTtlOfLastUpdate ==
  [][\A t \in TaskIds :
       TaskRemoveStep(t) =>
         \A e \in neighbors \ neighbors' :
           now >= e.last_detection_time + time_to_live(e.du)]_vars

\* C5: an update that replaces an entry cancels the entry's pending expiry
\* action, and an expiry action cancelled before it started running never
\* removes an entry afterwards.
C5_CancelledNeverRemoves ==
  [][/\ \A p \in Procs :
          UpdateRemoveStep(p) =>
            \A e \in MapGet(neighbors, KeyOfUpdate(p)) :
              tasks[e.timeout_handle].pc \in {"spawned", "sleeping"} =>
                tasks'[e.timeout_handle].pc = "cancelled"
     /\ \A t \in TaskIds :
          tasks[t].pc = "cancelled" =>
            /\ tasks'[t].pc = "cancelled"
            /\ T(t) \notin lockHolders'
            /\ T(t) \notin {lockQueue'[i] : i \in 1 .. Len(lockQueue')}]_vars
\* the first update's expiry was cancelled by the second update, whose entry stands
C5_Witness ==
  /\ tasks[1].pc = "cancelled"
  /\ \E e \in neighbors : e.timeout_handle = 2

\* C6: every table mutation is made by the one holder of exclusive access; no
\* other update or expiry is in its critical section while a refresh has the
\* key removed; the table holds the data unit of the update that acquired
\* exclusive access last.
C6_Exclusive ==
  /\ Cardinality({a \in Actors : InCriticalSection(a)}) <= 1
  /\ \A a \in Actors : InCriticalSection(a) => lockHolders = {a}
  /\ \A k \in Keys : \A e \in MapGet(neighbors, k) : e.du.id = lastLocked[k]
C6_MutationsUnderLock ==
  /\ []C6_Exclusive
  /\ [][neighbors' # neighbors =>
          \E a \in Actors : InCriticalSection(a) /\ lockHolders = {a}]_vars
\* two updates of one key overlap: one is mid-refresh, the other waits for the lock
C6_Witness ==
  \E p, q \in Procs :
    /\ p # q
    /\ upd[p].pc = "insert"
    /\ upd[q].pc = "locking"
    /\ upd[p].key = upd[q].key
    /\ lockQueue = <<U(q)>>
    /\ lastLocked[upd[p].key] = upd[p].du.id

(***************************************************************************)
(* Steps of the decoders, as state predicates on the state they start in.  *)
(***************************************************************************)
AtCdpTlv == decoder = "Cdp" /\ status = "scan" /\ Remaining # <<>>
AtLldpTlv == decoder = "Lldp" /\ status = "scan" /\ Remaining # <<>>

\* equality of two lists of TLVs, variant by variant and then value by value
Kinds(tlvs) == [i \in DOMAIN tlvs |-> tlvs[i].kind]
SameList(a, b) == Kinds(a) = Kinds(b) /\ a = b

\* the total length a CDP header at the cursor declares
DeclaredTotal == Remaining[3] * 256 + Remaining[4]

\* C7: for every input the LLDP and the CDP data-unit decode return a data
\* unit or a typed error and never panic, also for a CDP TLV whose total
\* length is below 4 and for a TLV whose length runs past the buffer.
C7_DecodeNeverPanics == status # "panic"

\* C8: a CDP TLV declaring total length L is accepted only if at least L
\* bytes remain at its boundary, with the L - 4 bytes after the header as its
\* payload and the cursor advanced by L; with fewer than L bytes remaining the
\* decode stops with the framing error BufferTooShort.
C8_CdpFraming ==
  [][AtCdpTlv /\ Len(Remaining) >= 4 =>
       LET L == DeclaredTotal IN
         /\ Len(Remaining) < L =>
              /\ status' = "done"
              /\ result' = Err("RawTlvError::BufferTooShort", 0)
         /\ L >= 4 /\ Len(Remaining) >= L =>
              LET tlv == CdpTlv_decode([ty |-> Remaining[1] * 256 + Remaining[2],
                                        payload |-> Slice(Remaining, 4, L)])
              IN /\ status' = "scan"
                 /\ cursor' = cursor + L
                 /\ cdpDu' = IF tlv.ok THEN CdpStore(cdpDu, tlv.v) ELSE cdpDu]_vars

\* C9: an LLDP TLV header is a big-endian 16-bit word, type its top 7 bits and
\* payload length its bottom 9 bits; with fewer than 2 bytes, or fewer than
\* 2 + length bytes, left at a TLV boundary the decode stops and returns
\* RawTlvError::BufferTooShort and no data unit, whatever was decoded before.
C9_LldpFraming ==
  [][AtLldpTlv =>
       IF Len(Remaining) < 2
         THEN /\ status' = "done"
              /\ result' = Err("RawTlvError::BufferTooShort", 0)
              /\ list' = list
       ELSE
         LET word == Remaining[1] * 256 + Remaining[2]
             ty == word \div 512
             len == word % 512
         IN IF Len(Remaining) < 2 + len
              THEN /\ status' = "done"
                   /\ result' = Err("RawTlvError::BufferTooShort", 0)
                   /\ list' = list
              ELSE LET tlv == Tlv_decode([ty |-> ty, payload |-> Slice(Remaining, 2, 2 + len)])
                   IN /\ status' = "scan"
                      /\ cursor' = cursor + 2 + len
                      /\ SameList(list', IF tlv.ok THEN Append(list, tlv.v) ELSE list)]_vars

\* the framing error after chassis id, port id and time to live were decoded,
\* at a TLV whose length needs bit 8 of the header
C9_Witness ==
  /\ decoder = "Lldp"
  /\ status = "done"
  /\ result = Err("RawTlvError::BufferTooShort", 0)
  /\ Len(list) = 3
  /\ list[1].kind = "ChassisId" /\ list[2].kind = "PortId" /\ list[3].kind = "TimeToLive"
  /\ Len(Remaining) >= 2
  /\ Remaining[1] % 2 = 1

\* C10: a well-framed LLDP or CDP TLV that fails its type-specific validation
\* is dropped and does not stop decoding: the cursor moves to the next TLV
\* boundary and the loop goes on; a TLV that decodes is added to the output
\* after the ones decoded before it.
C10_BadTlvDropped ==
  [][/\ AtLldpTlv /\ RawTlv_decode(Remaining).ok =>
          LET raw == RawTlv_decode(Remaining).v
              tlv == Tlv_decode(raw)
          IN /\ status' = "scan"
             /\ result' = result
             /\ cursor' = cursor + 2 + Len(raw.payload)
             /\ ~tlv.ok => SameList(list', list) /\ Len(warnings') = Len(warnings) + 1
             /\ tlv.ok => SameList(list', Append(list, tlv.v))
     /\ AtCdpTlv /\ (\A r \in CdpRawTlv_decode(Remaining) : "ok" \in DOMAIN r /\ r.ok) =>
          \A r \in CdpRawTlv_decode(Remaining) :
            LET tlv == CdpTlv_decode(r.v)
            IN /\ status' = "scan"
               /\ result' = result
               /\ cursor' = cursor + 4 + Len(r.v.payload)
               /\ ~tlv.ok => cdpDu' = cdpDu /\ Len(warnings') = Len(warnings) + 1
               /\ tlv.ok => cdpDu' = CdpStore(cdpDu, tlv.v)]_vars

\* an LLDP message with a TLV of unknown type between the mandatory TLVs and
\* a capabilities TLV: the data unit holds the capabilities
C10_Witness ==
  /\ decoder = "Lldp"
  /\ status = "done"
  /\ payload = LldpMandatory \o LldpWire(9, 1, <<1>>) \o LldpWire(7, 4, <<0, 20, 0, 4>>)
  /\ result.ok
  /\ result.v.capabilities = Some([capabilities |-> 20, enabled_capabilities |-> 4])
  /\ Len(list) = 4
  /\ list[4].kind = "Capabilities"
  /\ Len(warnings) = 1

\* the well-framed TLV at the cursor of the LLDP decoder
RawAtCursor == RawTlv_decode(Remaining).v

\* C11: an End-of-LLDPDU TLV (type 0) yields Tlv::End only when its payload is
\* empty; with a payload of 1 to 511 bytes it yields the decode error
\* BytesAfterEnd, is dropped, and framing goes on.
C11_EndOnlyWhenEmpty ==
  [][AtLldpTlv /\ RawTlv_decode(Remaining).ok /\ RawAtCursor.ty = 0 =>
       /\ status' = "scan"
       /\ cursor' = cursor + 2 + Len(RawAtCursor.payload)
       /\ IF RawAtCursor.payload = <<>>
            THEN SameList(list', Append(list, [kind |-> "End", v |-> 0]))
            ELSE /\ SameList(list', list)
                 /\ warnings' = Append(warnings,
                                       Warn("failed to decode tlv", Err("BytesAfterEnd", 0).err))]_vars

\* the payload of the single TLV decoded, and its type
TlvBody == IF decoder = "CdpTlv" THEN SliceFrom(payload, 4) ELSE SliceFrom(payload, 2)
TlvType == IF decoder = "CdpTlv" THEN payload[1] * 256 + payload[2] ELSE payload[1] \div 2

\* a field of exactly w bytes: shorter is BufferTooShort, longer BufferTooLong
ExactWidth(field, w) ==
  IF Len(field) < w THEN ~result.ok /\ result.err.kind = "BufferTooShort"
  ELSE IF Len(field) > w THEN ~result.ok /\ result.err.kind = "BufferTooLong"
  ELSE result.ok

\* C12: every fixed-width field (LLDP TTL 2 bytes, capabilities 4, MAC-address
\* chassis and port id 6 after the subtype byte, dot1 port VLAN id 2, dot3
\* MAC/PHY status 5; CDP native VLAN 2, duplex 1) decodes to BufferTooShort
\* when shorter, to BufferTooLong when longer, and succeeds only when exact.
C12_FixedWidth ==
  /\ decoder = "LldpTlv" /\ status = "done" =>
       /\ TlvType = 3 => ExactWidth(TlvBody, 2)
       /\ TlvType = 7 => ExactWidth(TlvBody, 4)
       /\ TlvType = 1 /\ StartsWith(TlvBody, <<4>>) => ExactWidth(SliceFrom(TlvBody, 1), 6)
       /\ TlvType = 2 /\ StartsWith(TlvBody, <<3>>) => ExactWidth(SliceFrom(TlvBody, 1), 6)
       /\ TlvType = 127 /\ StartsWith(TlvBody, <<0, 128, 194, 1>>) =>
            ExactWidth(SliceFrom(TlvBody, 4), 2)
       /\ TlvType = 127 /\ StartsWith(TlvBody, <<0, 18, 15, 1>>) =>
            ExactWidth(SliceFrom(TlvBody, 4), 5)
  /\ decoder = "CdpTlv" /\ status = "done" =>
       /\ TlvType = 10 => ExactWidth(TlvBody, 2)
       /\ TlvType = 11 => ExactWidth(TlvBody, 1)

\* a dot3 MAC/PHY status of 6 bytes, one too many, was refused as too long
C12_Witness ==
  /\ decoder = "LldpTlv"
  /\ status = "done"
  /\ payload = LldpWire(127, 10, <<0, 18, 15, 1, 1, 2, 3, 4, 5, 6>>)
  /\ result = Err("BufferTooLong", 0)

\* C13: for every constructible LLDP TLV value v, decode(encode(v)) = v.
C13_DecodeOfEncode ==
  decoder = "LldpRoundTrip" /\ status = "done" =>
    /\ result.ok
    /\ result.v.kind = given.kind
    /\ result.v = given

\* C14: for every constructible LLDP data unit d, DataUnit::decode of
\* DataUnit::encode(d) succeeds and equals d, the management addresses and the
\* VLAN names in the order they had in d.
C14_DataUnitRoundTrip ==
  decoder = "Lldp" /\ status = "done" /\ given.kind = "DataUnit" =>
    /\ result.ok
    /\ result.v = given.v

\* C15: for any LLDP TLV that decodes successfully, encoding the decoded value
\* gives back the bytes that were decoded.
C15_EncodeOfDecode ==
  decoder = "LldpReencode" /\ status = "done" /\ result.ok => given.v = payload

\* the decoded TLVs that fill one field of the LLDP data unit
LldpIs(name, t) ==
  CASE name = "chassis_id" -> t.kind = "ChassisId"
    [] name = "port_id" -> t.kind = "PortId"
    [] name = "time_to_live" -> t.kind = "TimeToLive"
    [] name = "port_description" -> t.kind = "PortDescription"
    [] name = "system_name" -> t.kind = "SystemName"
    [] name = "system_description" -> t.kind = "SystemDescription"
    [] name = "capabilities" -> t.kind = "Capabilities"
    [] name = "management_address" -> t.kind = "ManagementAddress"
    [] name = "port_vlan_id" ->
         t.kind = "Org" /\ t.v.org = "Dot1" /\ t.v.tlv.kind = "PortVlanId"
    [] name = "vlan_name" ->
         t.kind = "Org" /\ t.v.org = "Dot1" /\ t.v.tlv.kind = "VlanName"
    [] name = "mac_phy_status" ->
         t.kind = "Org" /\ t.v.org = "Dot3" /\ t.v.tlv.kind = "MacPhyStatus"

Occurrences(name) == SelectSeq(list, LAMBDA t : LldpIs(name, t))

\* the value such a TLV carries for its field
LldpValue(name, t) ==
  CASE name = "port_vlan_id" -> t.v.tlv.vlan
    [] name = "vlan_name" -> <<t.v.tlv.vlan, t.v.tlv.name>>
    [] name = "mac_phy_status" -> t.v.tlv
    [] OTHER -> t.v

\* the field of a decoded LLDP data unit, as an option
LldpField(name, d) ==
  CASE name = "chassis_id" -> Some(d.chassis_id)
    [] name = "port_id" -> Some(d.port_id)
    [] name = "time_to_live" -> Some(d.time_to_live)
    [] name = "port_description" -> d.port_description
    [] name = "system_name" -> d.system_name
    [] name = "system_description" -> d.system_description
    [] name = "capabilities" -> d.capabilities
    [] name = "port_vlan_id" -> d.org.dot1.port_vlan_id
    [] name = "mac_phy_status" -> d.org.dot3.mac_phy_status

SingleValued ==
  {"chassis_id", "port_id", "time_to_live", "port_description", "system_name",
   "system_description", "capabilities", "port_vlan_id", "mac_phy_status"}

Mandatory == {"chassis_id", "port_id", "time_to_live"}

\* the LLDP decode framed the whole message and went on to assemble
LldpAssembled ==
  /\ decoder = "Lldp"
  /\ status = "done"
  /\ result.ok \/ result.err.kind \in {"MissingChassisId", "MissingPortId", "MissingTimeToLive"}

Discarded(name) == IF Occurrences(name) = <<>> THEN 0 ELSE Len(Occurrences(name)) - 1

DuplicateWarnings(kind) ==
  Len(SelectSeq(warnings, LAMBDA w : w.msg = "duplicate" /\ w.what = kind))

ValuesOf(name) ==
  [i \in 1 .. Len(Occurrences(name)) |-> LldpValue(name, Occurrences(name)[i])]

C16_Lldp ==
  LldpAssembled =>
    /\ (\A name \in Mandatory : Occurrences(name) # <<>>) => result.ok
    /\ result.ok =>
         /\ \A name \in SingleValued :
              LET occ == Occurrences(name) IN
                IF occ = <<>> THEN ~LldpField(name, result.v).some
                ELSE /\ LldpField(name, result.v).some
                     /\ LldpField(name, result.v).v = LldpValue(name, occ[Len(occ)])
         /\ result.v.management_address = ValuesOf("management_address")
         /\ result.v.org.dot1.vlan_name = ValuesOf("vlan_name")
    /\ DuplicateWarnings("ChassisId") = Discarded("chassis_id")
    /\ DuplicateWarnings("PortId") = Discarded("port_id")
    /\ DuplicateWarnings("TimeToLive") = Discarded("time_to_live")
    /\ DuplicateWarnings("PortDescription") = Discarded("port_description")
    /\ DuplicateWarnings("SystemName") = Discarded("system_name")
    /\ DuplicateWarnings("SystemDescription") = Discarded("system_description")
    /\ DuplicateWarnings("Capabilities") = Discarded("capabilities")
    /\ DuplicateWarnings("ManagementAddress") = 0
    /\ DuplicateWarnings("Org") = Discarded("port_vlan_id") + Discarded("mac_phy_status")

\* the field of the CDP data unit a decoded CDP TLV fills, and its value
CdpFieldName(tlv) ==
  CASE tlv.kind = "DeviceId" -> "device_id"
    [] tlv.kind = "PortId" -> "port_id"
    [] tlv.kind = "Platform" -> "platform"
    [] tlv.kind = "SoftwareVersion" -> "software_version"
    [] tlv.kind = "NativeVlan" -> "native_vlan"
    [] tlv.kind = "Duplex" -> "duplex"

CdpValue(tlv) ==
  CASE tlv.kind = "NativeVlan" -> tlv.vlan
    [] tlv.kind = "Duplex" -> tlv.duplex
    [] OTHER -> tlv.text

\* the CDP TLV at the cursor, when the loop took it
CdpTaken ==
  CdpTlv_decode((CHOOSE raw \in CdpRawTlv_decode(Remaining) : "ok" \in DOMAIN raw /\ raw.ok).v)

C16_CdpStep ==
  /\ AtCdpTlv /\ cursor' > cursor /\ CdpTaken.ok =>
       LET field == CdpFieldName(CdpTaken.v) IN
         /\ cdpDu'[field] = Some(CdpValue(CdpTaken.v))
         /\ \A other \in DOMAIN cdpDu \ {field} : cdpDu'[other] = cdpDu[other]
         /\ warnings' = IF cdpDu[field].some
                          THEN Append(warnings, Warn("duplicate", CdpTaken.v.kind))
                          ELSE warnings
         /\ status' = "scan"
  /\ decoder = "Cdp" /\ status = "scan" /\ Remaining = <<>> =>
       status' = "done" /\ result' = Ok(cdpDu) /\ warnings' = warnings

\* C16: a single-valued TLV kind that occurs more than once does not fail the
\* assembly, in LLDP and in CDP: the field holds the value of the last
\* occurrence and one warning is logged per discarded earlier value, while
\* LLDP management addresses and VLAN names are all kept, in wire order.
C16_Duplicates == []C16_Lldp /\ [][C16_CdpStep]_vars

\* an LLDP data unit assembled from a chassis id given three times, the value
\* kept differing from the one before
C16_Witness ==
  /\ LldpAssembled /\ result.ok
  /\ Len(Occurrences("chassis_id")) = 3
  /\ Occurrences("chassis_id")[2] # Occurrences("chassis_id")[3]

\* the LLDP decode ended and not with a framing error
WellFramed ==
  /\ decoder = "Lldp"
  /\ status = "done"
  /\ result.ok \/ result.err.kind # "RawTlvError::BufferTooShort"

Decoded(kind) == \E i \in DOMAIN list : list[i].kind = kind

\* C17: the LLDP assembly of a well-framed message succeeds exactly when a
\* ChassisId, a PortId and a TimeToLive TLV were decoded; otherwise the error
\* is MissingChassisId when no chassis id was decoded, else MissingPortId when
\* no port id was, else MissingTimeToLive.
C17_MandatoryFields ==
  WellFramed =>
    /\ result.ok <=> Decoded("ChassisId") /\ Decoded("PortId") /\ Decoded("TimeToLive")
    /\ ~Decoded("ChassisId") => result.err.kind = "MissingChassisId"
    /\ Decoded("ChassisId") /\ ~Decoded("PortId") => result.err.kind = "MissingPortId"
    /\ Decoded("ChassisId") /\ Decoded("PortId") /\ ~Decoded("TimeToLive") =>
         result.err.kind = "MissingTimeToLive"

\* a message whose chassis id TLV was dropped by a decode error and whose port
\* id TLV was decoded: the assembly fails for the chassis id
C17_Witness ==
  /\ WellFramed
  /\ payload # <<>> /\ payload[1] = 2
  /\ Kinds(list) = <<"PortId">>
  /\ warnings # <<>>
  /\ ~result.ok /\ result.err.kind = "MissingChassisId"

\* C18: decoding a CDP message whose version byte is v # 2 fails with
\* UnknownCdpVersion(v) whatever follows the version byte, also when nothing
\* follows it.
C18_VersionGate ==
  decoder = "Cdp" /\ status = "done" /\ payload # <<>> /\ payload[1] # 2 =>
    result = Err("UnknownCdpVersion", payload[1])

\* an org-specific TLV, decoded and encoded again, whose payload starts with
\* an OUI that is neither dot1 nor dot3
UnknownOui ==
  /\ decoder = "LldpReencode"
  /\ status = "done"
  /\ TlvType = 127
  /\ Len(TlvBody) >= 3
  /\ SubSeq(TlvBody, 1, 3) \notin {LLDP_TLV_ORG_DOT1, LLDP_TLV_ORG_DOT3}

\* the Custom value that carries the OUI, the subtype byte and the bytes after
\* it, and whose encoding is the payload that was decoded
CapturedAsCustom ==
  /\ result.ok
  /\ result.v.kind = "Org"
  /\ result.v.v.org = "Custom"
  /\ result.v.v.tlv = [org |-> SubSeq(TlvBody, 1, 3), subtype |-> TlvBody[4],
                       data |-> SliceFrom(TlvBody, 4)]
  /\ SliceFrom(given.v, 2) = TlvBody

C20_View ==
  decoder = "View" /\ status = "done" =>
    /\ result.v.protocol = given.protocol
    /\ result.v.time_to_live = given.time_to_live
    /\ given.protocol = "Lldp" =>
         /\ result.v.port_id = Some(given.port_id)
         /\ result.v.system_name = given.system_name
         /\ result.v.port_vlan_id = given.org.dot1.port_vlan_id
    /\ given.protocol = "Cdp" =>
         /\ result.v.time_to_live \in 0 .. 255
         /\ result.v.system_name = given.device_id
         /\ result.v.port_vlan_id = given.native_vlan
         /\ given.port_id.some =>
              /\ result.v.port_id.some
              /\ result.v.port_id.v.kind = "InterfaceName"
              /\ result.v.port_id.v.text = given.port_id.v
         /\ ~given.port_id.some => result.v.port_id = None

\* the view of a CDP unit with the largest TTL, a device id, a native VLAN and
\* a port id
C20_Witness ==
  /\ decoder = "View" /\ status = "done"
  /\ given.protocol = "Cdp"
  /\ given.time_to_live = 255 /\ result.v.time_to_live = 255
  /\ given.device_id.some /\ given.native_vlan.some /\ given.port_id.some
  /\ result.v.port_id = Some([kind |-> "InterfaceName", text |-> <<101, 49>>])

\* C21: a CDP Duplex TLV with a 1-byte payload decodes to Half when the byte
\* is 0 and to Full for every byte 1..255; no value is refused.
C21_Duplex ==
  decoder = "CdpTlv" /\ status = "done" /\ TlvType = 11 /\ Len(TlvBody) = 1 =>
    /\ result.ok
    /\ result.v.kind = "Duplex"
    /\ TlvBody[1] = 0 => result.v.duplex = "Half"
    /\ TlvBody[1] \in 1 .. 255 => result.v.duplex = "Full"

\* the Duplex TLV with the byte 200 was decoded to Full
C21_Witness ==
  /\ decoder = "CdpTlv" /\ status = "done" /\ TlvType = 11
  /\ TlvBody = <<200>>
  /\ result = Ok([kind |-> "Duplex", duplex |-> "Full"])

\* C22: a 16-bit MAU code converted to MauType and back to u16 is the same
\* code (1..53 by way of their named variant, every other code by way of
\* Unknown), so no two named variants are written as the same number.
C22_MauCodeRoundTrip ==
  decoder = "MauType" /\ status = "done" =>
    /\ given.v.name = "Unknown" <=> given.code \notin 1 .. Len(MauTypeNames)
    /\ result.v = given.code

\* C23: the owned form (to_static) of a decoded data unit is the data unit:
\* every field is unchanged, and the chassis id and the port id keep their
\* variant and their content.
C23_ToStaticPreserves ==
  decoder = "ToStatic" /\ status = "done" =>
    /\ result.v.protocol = given.protocol
    /\ given.protocol = "Lldp" =>
         /\ result.v.chassis_id.kind = given.chassis_id.kind
         /\ result.v.port_id.kind = given.port_id.kind
    /\ result.v = given

\* an expiry action that has been scheduled, has not ended and has not been
\* asked to cancel
PendingExpiry(t) ==
  tasks[t].pc \in {"spawned", "sleeping", "running", "locking"} /\ ~tasks[t].aborted
PendingFor(k) == {t \in TaskIds : PendingExpiry(t) /\ tasks[t].key = k}

\* C24: at every moment at most one non-cancelled expiry action is pending per
\* key, and it is the one scheduled by the update that inserted the entry
\* stored for the key; no expiry action scheduled for a replaced or removed
\* entry removes a later entry.
C24_AtMostOnePending ==
  \A k \in Keys :
    /\ Cardinality(PendingFor(k)) <= 1
    /\ \A e \in MapGet(neighbors, k) : PendingFor(k) \subseteq {e.timeout_handle}
C24_OneExpiryPerKey ==
  /\ []C24_AtMostOnePending
  /\ [][\A t \in TaskIds :
          TaskRemoveStep(t) =>
            \A e \in MapGet(neighbors, tasks[t].key) :
              e.du.id > t => e \in neighbors']_vars

\* C25: every entry stored in the table has first_detection_time <=
\* last_detection_time, under any interleaving of concurrent updates of one key.
C25_FirstBeforeLast ==
  \A e \in neighbors : e.first_detection_time <= e.last_detection_time

\* C26: an expiry action never performs its removal before the entry it was
\* scheduled for has been inserted: the update holds exclusive access from
\* the scheduling of the expiry until its insert is done, so the expiry's
\* removal comes only after the update that scheduled it has returned, even
\* when time_to_live is 0.
C26_InsertBeforeRemoval ==
  /\ [](\A p \in Procs : upd[p].pc = "insert" => lockHolders = {U(p)})
  /\ [][\A t \in TaskIds :
          TaskRemoveStep(t) => \A p \in Procs : upd[p].du.id # t]_vars
\* one update with time_to_live 0 was made at time 0, and its expiry has
\* already removed the entry it inserted
C26_Witness ==
  /\ now = 0
  /\ nextId = 2
  /\ tasks[1].pc = "finished"
  /\ neighbors = {}
  /\ \A p \in Procs : upd[p].pc = "idle"

\* the entries and the expiry actions of the keys other than k are unchanged
OtherKeysUnchanged(k) ==
  /\ {e \in neighbors' : e.key # k} = {e \in neighbors : e.key # k}
  /\ \A t \in TaskIds : tasks[t].key \in Keys \ {k} => tasks'[t] = tasks[t]

\* C27: an update or an expiry for key K changes only K's entry: presence,
\* data unit, detection times and pending expiry action of every other key are
\* unchanged; one source MAC seen over CDP and over LLDP forms two keys.
C27_Frame ==
  [][/\ \A p \in Procs :
          UpdateRemoveStep(p) \/ UpdateInsertStep(p) => OtherKeysUnchanged(KeyOfUpdate(p))
     /\ \A t \in TaskIds :
          TaskRemoveStep(t) => OtherKeysUnchanged(tasks[t].key)]_vars
\* one source MAC was seen over both protocols; the expiry of the second
\* update has removed its entry, and the first update's entry and pending
\* expiry stand
C27_Witness ==
  /\ \A k \in Keys : lastLocked[k] # 0
  /\ tasks[2].pc = "finished"
  /\ tasks[1].pc \in {"spawned", "sleeping"}
  /\ \E e \in neighbors : e.du.id = 1 /\ e.timeout_handle = 1
  /\ Cardinality(neighbors) = 1

\* a buffer that is a sequence of CDP TLVs, each declaring a total length of
\* at least its 4 header bytes and of at most the bytes that are left
RECURSIVE CdpFramesFit(_)
CdpFramesFit(buf) ==
  \/ buf = <<>>
  \/ /\ Len(buf) >= 4
     /\ LET L == buf[3] * 256 + buf[4] IN
          /\ L >= 4
          /\ L <= Len(buf)
          /\ CdpFramesFit(SliceFrom(buf, L))

\* C28: a CDP message with version byte 2, at least 4 header bytes and
\* well-framed TLVs assembles successfully with time_to_live equal to header
\* byte 1, whatever TLVs are present, absent, unknown or individually invalid;
\* a message shorter than 4 bytes fails with BufferTooShort.
C28_CdpAssembles ==
  decoder = "Cdp" =>
    /\ Len(payload) < 4 => status = "done" /\ result = Err("BufferTooShort", 0)
    /\ Len(payload) >= 4 /\ payload[1] = 2 /\ CdpFramesFit(SliceFrom(payload, 4)) =>
         /\ status \in {"scan", "done"}
         /\ status = "done" =>
              /\ result.ok
              /\ result.v.time_to_live = payload[2]
\* a message with time to live 255 and one TLV of unknown type was assembled,
\* with a warning and no field but the time to live
C28_Witness ==
  /\ decoder = "Cdp"
  /\ status = "done"
  /\ payload = <<2, 255, 0, 0>> \o CdpWire(9, 5, <<7>>)
  /\ result = Ok([NoCdpDu EXCEPT !.time_to_live = 255])
  /\ Len(warnings) = 1

\* C29: a network address [subtype][address bytes] decodes to an IPv4 address
\* only from subtype 1 with exactly 4 address bytes and to an IPv6 address
\* only from subtype 2 with exactly 16 address bytes; every other subtype
\* decodes to Other with its subtype byte and address bytes unchanged; an
\* empty input is BufferTooShort.
C29_NetworkAddress ==
  decoder = "NetworkAddress" /\ status = "done" =>
    IF payload = <<>> THEN result = Err("BufferTooShort", 0)
    ELSE
      LET subtype == payload[1]
          bytes == SubSeq(payload, 2, Len(payload))
      IN /\ (result.ok /\ result.v.family = "V4") <=> (subtype = 1 /\ Len(bytes) = 4)
         /\ (result.ok /\ result.v.family = "V6") <=> (subtype = 2 /\ Len(bytes) = 16)
         /\ subtype \notin {1, 2} =>
              result = Ok([family |-> "Other", subtype |-> subtype, octets |-> bytes])
         /\ result.ok => result.v.octets = bytes
\* four address bytes under subtype 3 were parsed: they are not an IPv4 address
C29_Witness ==
  /\ decoder = "NetworkAddress"
  /\ status = "done"
  /\ payload = <<3, 1, 2, 3, 4>>
  /\ result = Ok([family |-> "Other", subtype |-> 3, octets |-> <<1, 2, 3, 4>>])

\* the decode stops in this step with the framing error
StopsWithFramingError ==
  status' = "done" /\ result' = Err("RawTlvError::BufferTooShort", 0)
\* the cursor moves on by at least n bytes and stays inside the buffer
Advances(n) == cursor' >= cursor + n /\ cursor' <= Len(payload)

\* C30: the LLDP TLV list decode and the CDP TLV loop terminate on every
\* finite input: each iteration either returns a framing error or advances
\* the cursor by at least the header size (2 bytes for LLDP, 4 bytes for CDP)
\* and never past the end of the buffer.
C30_LoopsProgress ==
  [][/\ AtLldpTlv => StopsWithFramingError \/ Advances(2)
     /\ AtCdpTlv => StopsWithFramingError \/ Advances(4)]_vars

====
